---- MODULE Spec2Model ----
(***************************************************************************)
(* Model of the `ws` tool of swaytools (src/src/bin/ws.rs): the focus and  *)
(* move subcommands, the Sway wrapper they use, the files they read, and   *)
(* the compositor they talk to.                                            *)
(*                                                                         *)
(* An invocation of a tool is a short-lived process.  One step of the      *)
(* model is one exchange of a process with the compositor (a query and its *)
(* reply, a command and its result) or one system call on a file (a read,  *)
(* the creation that truncates, a write); the processes of different       *)
(* invocations take their steps in any order.  The compositor is the       *)
(* environment: its part of the state is changed only by the commands the  *)
(* tools send.                                                             *)
(***************************************************************************)
EXTENDS Integers, Sequences, FiniteSets, TLC

VARIABLES
    comp,          \* the compositor: [ws, focus, active, prev]
    abf,           \* the compositor's workspace_auto_back_and_forth setting
    mappingFile,   \* content of the mapping file (cli.mapping_file)
    previousFile,  \* content of the previous-workspace file (cli.previous_file)
    last,          \* what the invocation that ended in the latest step did
    monitor,       \* the `ws monitor` process: [pc, stream, event, noted]
    configFile,    \* content of sway-workspaces-outputs.json (get_config_path)
    procs          \* the invocations of the tools: each ready, running or done

vars == <<comp, abf, mappingFile, previousFile, last, monitor, configFile, procs>>

(***************************************************************************)
(* Bounds of the model.                                                    *)
(***************************************************************************)
\* Workspace numbers used in arguments, in the mapping and at start: 1..MaxNum.
MaxNum == 2
\* Windows on each workspace that exists at start: 0..MaxWindows.
MaxWindows == 1

\* Comma-separated parts in the workspace list of an OUTPUT:SPEC token: at
\* most MaxParts.
MaxParts == 2

\* Numbers in one entry of a mapping that is saved and loaded: at most MaxVecLen.
MaxVecLen == 2

\* OUTPUT:SPEC tokens in one map invocation: 1..MaxTokens.
MaxTokens == 2
\* The IPC call of a run that fails in the transport: a query, or one of
\* the first MaxFail commands.
MaxFail == 4
\* Queries one Sway value makes to the compositor: at most MaxQueries.
MaxQueries == 3
\* Workspaces in a snapshot given to the lookup: at most MaxSnapshot.
MaxSnapshot == 3

Nums == 1..MaxNum
\* The connected outputs, in the compositor's order.
Outputs == <<"A", "B">>
OutputNames == {Outputs[i] : i \in DOMAIN Outputs}
\* An output that has been unplugged: a file written while it was connected
\* still names it, and so may a command line.
Disconnected == "C"
KnownOutputs == Outputs \o <<Disconnected>>
\* The NAME arguments the invocations use.
ArgNames == {"mail"}

\* Option<T>: None is the empty sequence, Some(v) is <<v>>.
None == <<>>
Some(v) == <<v>>
IsSome(o) == o # <<>>
Unwrap(o) == o[1]

\* No name: the seat has no prev_workspace_name yet.
NoName == ""

(***************************************************************************)
(* The compositor (sway), as the tool's commands see it.                   *)
(*   comp.ws     : set of workspaces [name, num, output, windows]          *)
(*   comp.focus  : name of the focused workspace                           *)
(*   comp.active : output -> name of the workspace visible on it           *)
(*   comp.prev   : the workspace focused before the last focus change      *)
(***************************************************************************)

\* The number of a workspace name: its leading digits, -1 without any.
NameNum(s) ==
    IF \E n \in 0..(MaxNum + 1) :
          \/ s = ToString(n)
          \/ \E t \in ArgNames : s = ToString(n) \o ":" \o t
    THEN CHOOSE n \in 0..(MaxNum + 1) :
          \/ s = ToString(n)
          \/ \E t \in ArgNames : s = ToString(n) \o ":" \o t
    ELSE -1

OutIdx(o) == CHOOSE i \in DOMAIN Outputs : Outputs[i] = o

\* The compositor lists workspaces output by output, numbered ones first in
\* ascending order, then the named ones.
NumKey(w) == IF w.num < 0 THEN MaxNum + 2 ELSE w.num
NameKey(w) == IF w.name = ToString(w.num) THEN 0 ELSE 1
WsBefore(a, b) ==
    \/ OutIdx(a.output) < OutIdx(b.output)
    \/ /\ a.output = b.output
       /\ \/ NumKey(a) < NumKey(b)
          \/ NumKey(a) = NumKey(b) /\ NameKey(a) < NameKey(b)

RECURSIVE ListWs(_)
ListWs(S) ==
    IF S = {} THEN <<>>
    ELSE LET m == CHOOSE x \in S : \A y \in S \ {x} : WsBefore(x, y)
         IN  <<m>> \o ListWs(S \ {m})

WsNamed(c, s) == CHOOSE w \in c.ws : w.name = s
HasName(c, s) == \E w \in c.ws : w.name = s
FocusedWs(c) == WsNamed(c, c.focus)
FocusedOutputName(c) == FocusedWs(c).output

\* workspace_create: a new workspace appears on the focused output.
NewWs(c, s) ==
    [name |-> s, num |-> NameNum(s), output |-> FocusedOutputName(c), windows |-> 0]

\* workspace_by_number: the first listed workspace with that number.
WsByNumber(c, n) ==
    LET l == ListWs(c.ws)
        I == {i \in DOMAIN l : l[i].num = n}
    IN  IF I = {} THEN None ELSE Some(l[CHOOSE i \in I : \A j \in I : i <= j])

WsByName(c, s) == IF HasName(c, s) THEN Some(WsNamed(c, s)) ELSE None

\* seat_set_focus on workspace w: w becomes visible on its output and focused,
\* the workspace focused so far becomes prev, and the workspace w replaces on
\* its output is destroyed when it is empty.
SeatSetFocus(c, w) ==
    IF w.name = c.focus THEN c
    ELSE LET old  == c.active[w.output]
             gone == {x \in c.ws : x.name = old /\ x.name # w.name /\ x.windows = 0}
         IN  [ws     |-> c.ws \ gone,
              focus  |-> w.name,
              active |-> [c.active EXCEPT ![w.output] = w.name],
              prev   |-> c.focus]

\* The workspace a command names: an existing one, or a new one.
\* cmd.byNum: looked up by number, created under cmd.ws; else by name cmd.ws.
CmdTarget(c, cmd) ==
    LET found == IF cmd.byNum THEN WsByNumber(c, cmd.num) ELSE WsByName(c, cmd.ws)
    IN  IF IsSome(found) THEN Unwrap(found) ELSE NewWs(c, cmd.ws)

\* workspace_auto_back_and_forth: naming the focused workspace means prev.
BackAndForth(c, w) ==
    IF abf /\ w.name = c.focus /\ c.prev # NoName
    THEN IF HasName(c, c.prev) THEN WsNamed(c, c.prev) ELSE NewWs(c, c.prev)
    ELSE w

\* "workspace [number] ..."
SwayWorkspace(c, cmd) ==
    LET w == BackAndForth(c, CmdTarget(c, cmd))
    IN  SeatSetFocus([c EXCEPT !.ws = @ \cup {w}], w)

\* "focus output NAME"
SwayFocusOutput(c, cmd) ==
    IF cmd.output \notin OutputNames THEN c
    ELSE SeatSetFocus(c, WsNamed(c, c.active[cmd.output]))

\* "move to workspace [number] ...": the focused window goes to the target
\* workspace; focus stays where it is.  Fails on an empty workspace.
SwayMoveToWorkspace(c, cmd) ==
    LET src == FocusedWs(c)
        w   == BackAndForth(c, CmdTarget(c, cmd))
    IN  IF src.windows = 0 \/ w.name = src.name THEN c
        ELSE [c EXCEPT !.ws = (@ \ {src, w})
                 \cup {[src EXCEPT !.windows = @ - 1], [w EXCEPT !.windows = @ + 1]}]

\* "workspace --no-auto-back-and-forth number N"
SwayWorkspaceNoAbf(c, cmd) ==
    LET w == CmdTarget(c, cmd)
    IN  SeatSetFocus([c EXCEPT !.ws = @ \cup {w}], w)

\* The lowest number no workspace has.
FreshNum(c) ==
    CHOOSE n \in 1..(MaxNum + 3) :
        /\ \A w \in c.ws : w.num # n
        /\ \A m \in 1..(n - 1) : \E w \in c.ws : w.num = m

\* "move workspace to output NAME": the focused workspace goes to the output
\* and is shown there; the output it leaves shows another of its workspaces
\* or gets a new one; the workspace it replaces is destroyed when empty.
SwayMoveWorkspaceToOutput(c, cmd) ==
    LET w == FocusedWs(c)
    IN  IF cmd.output \notin OutputNames \/ w.output = cmd.output THEN c
        ELSE LET shown == WsNamed(c, c.active[cmd.output])
                 gone  == IF shown.windows = 0 THEN {shown} ELSE {}
                 rest  == ListWs({x \in c.ws : x.output = w.output /\ x.name # w.name})
                 fill  == IF rest # <<>> THEN rest[1]
                          ELSE [name |-> ToString(FreshNum(c)), num |-> FreshNum(c),
                                output |-> w.output, windows |-> 0]
             IN  [c EXCEPT !.ws = ((@ \ ({w} \cup gone))
                                      \cup {[w EXCEPT !.output = cmd.output], fill}),
                           !.active = [@ EXCEPT ![cmd.output] = w.name,
                                                ![w.output] = fill.name]]

\* "[workspace=NAME] move workspace to 'OUTPUT'": the criteria select the
\* windows on the workspace NAME, and the workspace of a selected window goes
\* to the output, is shown there and gets the focus
\* (workspace_move_to_output ends with seat_set_focus); a workspace without
\* a window selects nothing.
SwayCriteriaMoveWorkspace(c, cmd) ==
    LET found == WsByName(c, cmd.ws)
    IN  IF ~IsSome(found) THEN c
        ELSE LET w == Unwrap(found)
             IN  IF \/ w.windows = 0
                    \/ cmd.output \notin OutputNames
                    \/ w.output = cmd.output
                 THEN c
                 ELSE LET shown == WsNamed(c, c.active[cmd.output])
                          gone  == IF shown.windows = 0 THEN {shown} ELSE {}
                          rest  == ListWs({x \in c.ws : x.output = w.output
                                                          /\ x.name # w.name})
                          fill  == IF rest # <<>> THEN rest[1]
                                   ELSE [name |-> ToString(FreshNum(c)), num |-> FreshNum(c),
                                         output |-> w.output, windows |-> 0]
                          left  == IF c.active[w.output] = w.name
                                   THEN fill.name ELSE c.active[w.output]
                      IN  [c EXCEPT !.ws = ((@ \ ({w} \cup gone))
                                              \cup {[w EXCEPT !.output = cmd.output]}
                                              \cup (IF left = fill.name THEN {fill} ELSE {})),
                                    !.focus = w.name,
                                    !.active = [@ EXCEPT ![cmd.output] = w.name,
                                                         ![w.output] = left]]

\* "workspace number X" and "move to workspace number X" are rejected when X
\* does not start with a digit.
InvalidNumber(cmd) == cmd.byNum /\ cmd.num < 0

SwayRun(c, cmd) ==
    CASE InvalidNumber(cmd)           -> c
      [] cmd.op = "workspace"         -> SwayWorkspace(c, cmd)
      [] cmd.op = "focus_output"      -> SwayFocusOutput(c, cmd)
      [] cmd.op = "move_to_workspace" -> SwayMoveToWorkspace(c, cmd)
      [] cmd.op = "workspace_no_abf"  -> SwayWorkspaceNoAbf(c, cmd)
      [] cmd.op = "criteria_move"     -> SwayCriteriaMoveWorkspace(c, cmd)
      [] cmd.op = "select_and_move"   ->
             SwayMoveWorkspaceToOutput(SwayWorkspaceNoAbf(c, cmd), cmd)
      [] OTHER                        -> c

\* get_workspaces: the snapshot the tool reads (swayipc::Workspace).
GetWorkspaces(c) ==
    LET l == ListWs(c.ws)
    IN  [i \in DOMAIN l |->
            [num |-> l[i].num, name |-> l[i].name, output |-> l[i].output,
             focused |-> (l[i].name = c.focus),
             visible |-> (c.active[l[i].output] = l[i].name)]]

\* The outputs are of one make and model and differ in the serial number.
OutputSerial(o) == IF o = Outputs[1] THEN "a" ELSE "b"

\* get_outputs: the connected outputs (swayipc::Output).
GetOutputs(c) ==
    [i \in DOMAIN Outputs |->
        [name |-> Outputs[i],
         focused |-> (c.focus # NoName /\ Outputs[i] = FocusedOutputName(c)),
         make |-> "m", model |-> "x", serial |-> OutputSerial(Outputs[i])]]

(***************************************************************************)
(* The files.  On disk a file is missing or holds a text: its bytes, each  *)
(* a character of one byte; a byte that occurs in no UTF-8 text goes by    *)
(* its name.  What a process has of a file it loaded is the mapping read   *)
(* from the text, or the reason why there is none.                         *)
(***************************************************************************)
Missing == [kind |-> "missing", text |-> <<>>]
\* A file holding this text.
TextFile(text) == [kind |-> "text", text |-> text]

NonUtf8Bytes == {"0xfe", "0xff"}
\* String::from_utf8 accepts the bytes.
IsUtf8(text) == \A i \in DOMAIN text : text[i] \notin NonUtf8Bytes

\* Loaded: there was no file (or none has been read yet), the bytes were not
\* UTF-8, the text was not the JSON of a mapping, the mapping.
NoFile == [kind |-> "missing", map |-> <<>>]
NotUtf8 == [kind |-> "notutf8", map |-> <<>>]
Invalid == [kind |-> "invalid", map |-> <<>>]
Json(m) == [kind |-> "json", map |-> m]

\* Vec<i32>::contains
Contains(v, x) == \E i \in DOMAIN v : v[i] = x

\* The ascending range a..b as a Vec<i32>.
Range(a, b) == [i \in 1..(b - a + 1) |-> a + i - 1]

\* A mapping: output name -> Vec<i32>, entries with no number left out.
MakeMapping(entries) ==
    LET D == {o \in DOMAIN entries : entries[o] # <<>>}
    IN  [o \in D |-> entries[o]]

(***************************************************************************)
(* Text.  A string the code takes apart or puts together character by      *)
(* character is a sequence of one-character strings.                       *)
(***************************************************************************)
Digit == <<"0", "1", "2", "3", "4", "5", "6", "7", "8", "9">>
IsDigit(ch) == \E i \in DOMAIN Digit : Digit[i] = ch
DigitVal(ch) == (CHOOSE i \in DOMAIN Digit : Digit[i] = ch) - 1

\* The String with these characters.
RECURSIVE Concat(_)
Concat(chars) ==
    IF chars = <<>> THEN "" ELSE Head(chars) \o Concat(Tail(chars))

\* The characters of a String (of characters that stand for themselves).
Chars(str) == [i \in 1..Len(str) |-> SubSeq(str, i, i)]

\* str::contains(ch)
HasChar(str, ch) == \E i \in DOMAIN str : str[i] = ch

\* str::split_once(ch): the text before and after the first ch.
split_once(str, ch) ==
    IF ~HasChar(str, ch) THEN None
    ELSE LET i == CHOOSE k \in DOMAIN str :
                     str[k] = ch /\ \A j \in 1..(k - 1) : str[j] # ch
         IN  Some(<<SubSeq(str, 1, i - 1), SubSeq(str, i + 1, Len(str))>>)

\* str::split(ch): the pieces between the occurrences of ch, at least one.
RECURSIVE split(_, _)
split(str, ch) ==
    LET cut == split_once(str, ch)
    IN  IF IsSome(cut)
        THEN <<Unwrap(cut)[1]>> \o split(Unwrap(cut)[2], ch)
        ELSE <<str>>

\* The value of a run of digits, read left to right.
RECURSIVE DigitsValue(_, _)
DigitsValue(digits, acc) ==
    IF digits = <<>> THEN acc
    ELSE DigitsValue(Tail(digits), 10 * acc + DigitVal(Head(digits)))

\* The value of the digits after a minus sign, read left to right.
RECURSIVE NegDigitsValue(_, _)
NegDigitsValue(digits, acc) ==
    IF digits = <<>> THEN acc
    ELSE NegDigitsValue(Tail(digits), 10 * acc - DigitVal(Head(digits)))

\* The digits without their leading zeros.
RECURSIVE StripZeros(_)
StripZeros(digits) ==
    IF Len(digits) > 1 /\ Head(digits) = "0" THEN StripZeros(Tail(digits)) ELSE digits

\* Digit sequences of the same length: a is at most b.
RECURSIVE DigitsLeq(_, _)
DigitsLeq(a, b) ==
    \/ a = <<>>
    \/ DigitVal(Head(a)) < DigitVal(Head(b))
    \/ Head(a) = Head(b) /\ DigitsLeq(Tail(a), Tail(b))

\* The number the digits denote, negated when neg, is an i32:
\* -2147483648 ..= 2147483647.
WithinI32(digits, neg) ==
    LET d     == StripZeros(digits)
        limit == IF neg THEN <<"2", "1", "4", "7", "4", "8", "3", "6", "4", "8">>
                 ELSE <<"2", "1", "4", "7", "4", "8", "3", "6", "4", "7">>
    IN  Len(d) < 10 \/ (Len(d) = 10 /\ DigitsLeq(d, limit))

\* str::parse::<i32>(): an optional sign, then one or more digits, the value
\* within i32.
parse_i32(str) ==
    LET signed == str # <<>> /\ Head(str) \in {"+", "-"}
        neg    == signed /\ Head(str) = "-"
        digits == IF signed THEN Tail(str) ELSE str
    IN  IF digits = <<>> \/ \E i \in DOMAIN digits : ~IsDigit(digits[i])
        THEN None
        ELSE IF ~WithinI32(digits, neg) THEN None
        ELSE IF neg THEN Some(NegDigitsValue(StripZeros(digits), 0))
        ELSE Some(DigitsValue(StripZeros(digits), 0))

\* Variant: the Vec is left as pushed.
sort_none(v) == v

\* Vec::sort on integers (by insertion).
RECURSIVE sort(_)
sort(v) ==
    IF v = <<>> THEN <<>>
    ELSE LET rest == sort(Tail(v))
             k    == Cardinality({i \in DOMAIN rest : rest[i] < Head(v)})
         IN  SubSeq(rest, 1, k) \o <<Head(v)>> \o SubSeq(rest, k + 1, Len(rest))

\* Variant: repeated numbers are kept.
dedup_none(v) == v

\* Vec::dedup: of consecutive equal elements the first is kept.
RECURSIVE dedup(_)
dedup(v) ==
    IF Len(v) <= 1 THEN v
    ELSE IF v[1] = v[2] THEN dedup(Tail(v))
    ELSE <<v[1]>> \o dedup(Tail(v))

\* map_validator, one part of the workspace list (lines 72-89): the numbers
\* it pushes, or None for Err.
validator_part(part) ==
    IF HasChar(part, "-")
    THEN LET cut   == Unwrap(split_once(part, "-"))
             left  == parse_i32(cut[1])
             right == parse_i32(cut[2])
         IN  IF ~IsSome(left) \/ ~IsSome(right) THEN None
             ELSE IF Unwrap(left) <= Unwrap(right)
             THEN Some(Range(Unwrap(left), Unwrap(right)))
             ELSE Some(Range(Unwrap(right), Unwrap(left)))
    ELSE LET num == parse_i32(part)
         IN  IF IsSome(num) THEN Some(<<Unwrap(num)>>) ELSE None

\* map_validator, the loop over the parts (lines 70-90).
RECURSIVE validator_parts(_, _)
validator_parts(parts, workspaces) ==
    IF parts = <<>> THEN Some(workspaces)
    ELSE LET pushed == validator_part(Head(parts))
         IN  IF IsSome(pushed)
             THEN validator_parts(Tail(parts), workspaces \o Unwrap(pushed))
             ELSE None

\* map_validator: Some((output, workspaces)) for Ok, None for Err.
map_validator(string) ==
    LET cut == split_once(string, ":")
    IN  IF ~IsSome(cut) THEN None
        ELSE LET workspaces == validator_parts(split(Unwrap(cut)[2], ","), <<>>)
             IN  IF ~IsSome(workspaces) THEN None
                 ELSE Some([output |-> Concat(Unwrap(cut)[1]),
                            workspaces |-> dedup(sort(Unwrap(workspaces)))])

(***************************************************************************)
(* serde_json on HashMap<String, Vec<i32>>.  A mapping in memory is a      *)
(* function from keys (Strings, as character sequences) to number          *)
(* sequences; the file holds text.                                         *)
(***************************************************************************)
Quote == "\""
Backslash == "\\"

\* The control characters U+0000..U+001F by code point: tab, line feed, form
\* feed and carriage return are themselves, the others go by their name.
Hex == <<"0", "1", "2", "3", "4", "5", "6", "7", "8", "9", "a", "b", "c", "d", "e", "f">>
ControlChar(code) ==
    CASE code = 9  -> "\t"
      [] code = 10 -> "\n"
      [] code = 12 -> "\f"
      [] code = 13 -> "\r"
      [] OTHER     -> "U+00" \o Hex[(code \div 16) + 1] \o Hex[(code % 16) + 1]
IsControl(ch) == \E code \in 0..31 : ch = ControlChar(code)
ControlCode(ch) == CHOOSE code \in 0..31 : ch = ControlChar(code)

\* The letter of the two-character escape of a control character, "u" when
\* it has none.
ShortEscape(code) ==
    CASE code = 8  -> "b"
      [] code = 9  -> "t"
      [] code = 10 -> "n"
      [] code = 12 -> "f"
      [] code = 13 -> "r"
      [] OTHER     -> "u"

\* One character of a String between the quotes: quote and backslash get a
\* backslash, a control character becomes \b, \t, \n, \f, \r or \u00XX.
json_escape_char(ch) ==
    IF ch \in {Quote, Backslash} THEN <<Backslash, ch>>
    ELSE IF IsControl(ch)
    THEN LET code == ControlCode(ch)
         IN  IF ShortEscape(code) # "u" THEN <<Backslash, ShortEscape(code)>>
             ELSE <<Backslash, "u", "0", "0",
                    Hex[(code \div 16) + 1], Hex[(code % 16) + 1]>>
    ELSE <<ch>>

\* A String's content between the quotes.
RECURSIVE json_escape(_)
json_escape(chars) ==
    IF chars = <<>> THEN <<>>
    ELSE json_escape_char(Head(chars)) \o json_escape(Tail(chars))

json_string(chars) == <<Quote>> \o json_escape(chars) \o <<Quote>>

\* The digits of n >= 0.
RECURSIVE json_digits(_)
json_digits(n) ==
    IF n < 10 THEN <<Digit[n + 1]>>
    ELSE json_digits(n \div 10) \o <<Digit[(n % 10) + 1]>>

\* A minus sign and the digits of the magnitude, the last digit taken off
\* first (the magnitude of i32::MIN is no i32).
json_i32(n) ==
    IF n >= 0 THEN json_digits(n)
    ELSE LET unit == (10 - (n % 10)) % 10
             rest == 0 - ((n + unit) \div 10)
         IN  <<"-">> \o (IF rest = 0 THEN <<>> ELSE json_digits(rest))
                     \o <<Digit[unit + 1]>>

\* The elements of a sequence of texts, separated by commas.
RECURSIVE json_list(_)
json_list(texts) ==
    IF texts = <<>> THEN <<>>
    ELSE IF Len(texts) = 1 THEN texts[1]
    ELSE texts[1] \o <<",">> \o json_list(Tail(texts))

json_vec(v) == <<"[">> \o json_list([i \in DOMAIN v |-> json_i32(v[i])]) \o <<"]">>

\* Variant: the characters of a key are written as they are.
to_string_unescaped(mapping, order) ==
    <<"{">>
    \o json_list([i \in DOMAIN order |->
            <<Quote>> \o order[i] \o <<Quote>> \o <<":">> \o json_vec(mapping[order[i]])])
    \o <<"}">>

\* serde_json::to_string(&mapping); order: the keys as the HashMap iterates.
to_string(mapping, order) ==
    <<"{">>
    \o json_list([i \in DOMAIN order |->
            json_string(order[i]) \o <<":">> \o json_vec(mapping[order[i]])])
    \o <<"}">>

\* F of the value v, which is worked out once.
With(v, F(_)) == CHOOSE r \in {F(x) : x \in {v}} : TRUE

\* What a parser returns: the value read and the text after it, or failure.
Parsed(value, rest) == [ok |-> TRUE, value |-> value, rest |-> rest]
ParseFail == [ok |-> FALSE, value |-> <<>>, rest |-> <<>>]
Starts(text, ch) == text # <<>> /\ Head(text) = ch

\* The white space serde_json skips between the tokens.
IsSpace(ch) == ch \in {" ", "\n", "\t", "\r"}

RECURSIVE parse_whitespace(_)
parse_whitespace(text) ==
    IF text # <<>> /\ IsSpace(Head(text)) THEN parse_whitespace(Tail(text)) ELSE text

\* The value of a hexadecimal digit in either case, -1 for anything else.
HexVal(ch) ==
    LET upper == <<"A", "B", "C", "D", "E", "F">>
    IN  IF \E i \in DOMAIN Hex : Hex[i] = ch
        THEN (CHOOSE i \in DOMAIN Hex : Hex[i] = ch) - 1
        ELSE IF \E i \in DOMAIN upper : upper[i] = ch
        THEN (CHOOSE i \in DOMAIN upper : upper[i] = ch) + 9
        ELSE -1

\* The characters U+0020..U+007E by code point (the grave accent, which a
\* string of this language cannot hold, goes by its name).
Ascii ==
    <<" ", "!", "\"", "#", "$", "%", "&", "'", "(", ")", "*", "+", ",", "-", ".", "/",
      "0", "1", "2", "3", "4", "5", "6", "7", "8", "9", ":", ";", "<", "=", ">", "?",
      "@", "A", "B", "C", "D", "E", "F", "G", "H", "I", "J", "K", "L", "M", "N", "O",
      "P", "Q", "R", "S", "T", "U", "V", "W", "X", "Y", "Z", "[", "\\", "]", "^", "_",
      "U+0060", "a", "b", "c", "d", "e", "f", "g", "h", "i", "j", "k", "l", "m", "n", "o",
      "p", "q", "r", "s", "t", "u", "v", "w", "x", "y", "z", "{", "|", "}", "~">>

\* The hexadecimal digits of n, at least four.
RECURSIVE HexText(_, _)
HexText(n, width) ==
    IF n < 16 /\ width <= 1 THEN Hex[n + 1]
    ELSE HexText(n \div 16, width - 1) \o Hex[(n % 16) + 1]

\* The character with this code point: a control character, a printable
\* ASCII character, or a character beyond ASCII, which goes by its name.
CodeChar(code) ==
    IF code < 32 THEN ControlChar(code)
    ELSE IF code < 127 THEN Ascii[code - 31]
    ELSE "U+" \o HexText(code, 4)

\* The number four hexadecimal digits at text[i..i+3] denote, -1 when the
\* text ends before or one of them is no hexadecimal digit.
decode_hex_escape(text, i) ==
    IF Len(text) < i + 3 \/ \E k \in i..(i + 3) : HexVal(text[k]) < 0 THEN -1
    ELSE 4096 * HexVal(text[i]) + 256 * HexVal(text[i + 1])
         + 16 * HexVal(text[i + 2]) + HexVal(text[i + 3])

\* The character an escape stands for, after the backslash: the character
\* and the number of characters read, or failure.  \uXXXX is the character
\* with that code point; a leading surrogate (D800..DBFF) must be followed by
\* the escape of a trailing one (DC00..DFFF) and the two make one character,
\* a surrogate on its own is an error.
from_str_escape(text) ==
    IF text = <<>> THEN ParseFail
    ELSE CASE Head(text) \in {Quote, Backslash, "/"} -> Parsed(Head(text), 1)
           [] Head(text) = "b" -> Parsed(ControlChar(8), 1)
           [] Head(text) = "t" -> Parsed(ControlChar(9), 1)
           [] Head(text) = "n" -> Parsed(ControlChar(10), 1)
           [] Head(text) = "f" -> Parsed(ControlChar(12), 1)
           [] Head(text) = "r" -> Parsed(ControlChar(13), 1)
           [] Head(text) = "u" ->
                With(decode_hex_escape(text, 2), LAMBDA n1 :
                With(IF Len(text) >= 7 /\ text[6] = Backslash /\ text[7] = "u"
                     THEN decode_hex_escape(text, 8) ELSE -1, LAMBDA n2 :
                    IF n1 < 0 \/ (n1 >= 56320 /\ n1 <= 57343) THEN ParseFail
                    ELSE IF n1 >= 55296 /\ n1 <= 56319
                    THEN IF n2 >= 56320 /\ n2 <= 57343
                         THEN Parsed(CodeChar(65536 + (n1 - 55296) * 1024 + (n2 - 56320)), 11)
                         ELSE ParseFail
                    ELSE Parsed(CodeChar(n1), 5)))
           [] OTHER -> ParseFail

\* The characters of a String after the opening quote, up to the closing
\* quote; a control character that is not escaped is an error.
RECURSIVE from_str_chars(_, _)
from_str_chars(text, acc) ==
    With(<<text, acc>>, LAMBDA a :
        IF a[1] = <<>> THEN ParseFail
        ELSE IF Head(a[1]) = Quote THEN Parsed(a[2], Tail(a[1]))
        ELSE IF Head(a[1]) = Backslash
        THEN With(from_str_escape(Tail(a[1])), LAMBDA e :
                 IF e.ok
                 THEN from_str_chars(SubSeq(a[1], e.rest + 2, Len(a[1])),
                                     Append(a[2], e.value))
                 ELSE ParseFail)
        ELSE IF IsControl(Head(a[1])) THEN ParseFail
        ELSE from_str_chars(Tail(a[1]), Append(a[2], Head(a[1]))))

\* A String: white space, the opening quote, the characters.
from_str_string(text) ==
    With(parse_whitespace(text), LAMBDA t :
        IF Starts(t, Quote) THEN from_str_chars(Tail(t), <<>>) ELSE ParseFail)

\* The longest run of digits at the start of the text.
RECURSIVE DigitRun(_)
DigitRun(text) ==
    IF text # <<>> /\ IsDigit(Head(text)) THEN <<Head(text)>> \o DigitRun(Tail(text))
    ELSE <<>>

\* An i32: white space, an optional minus, digits without a leading zero,
\* the value within i32.  A number with a fraction or an exponent is a float
\* and so is -0: an i32 is not read from a float.
from_str_i32(text) ==
    With(parse_whitespace(text), LAMBDA t :
    With(DigitRun(IF Starts(t, "-") THEN Tail(t) ELSE t), LAMBDA digits :
        LET neg  == Starts(t, "-")
            rest == SubSeq(t, Len(digits) + (IF neg THEN 2 ELSE 1), Len(t))
        IN  IF digits = <<>> \/ (Len(digits) > 1 /\ digits[1] = "0") THEN ParseFail
            ELSE IF rest # <<>> /\ Head(rest) \in {".", "e", "E"} THEN ParseFail
            ELSE IF neg /\ digits = <<"0">> THEN ParseFail
            ELSE IF ~WithinI32(digits, neg) THEN ParseFail
            ELSE IF neg THEN Parsed(NegDigitsValue(digits, 0), rest)
            ELSE Parsed(DigitsValue(digits, 0), rest)))

\* The elements of a Vec<i32> after the first, up to the closing bracket; a
\* comma is followed by an element.
RECURSIVE from_str_vec_rest(_, _)
from_str_vec_rest(text, acc) ==
    With(<<parse_whitespace(text), acc>>, LAMBDA a :
        IF Starts(a[1], "]") THEN Parsed(a[2], Tail(a[1]))
        ELSE IF Starts(a[1], ",")
        THEN With(from_str_i32(Tail(a[1])), LAMBDA n :
                 IF n.ok THEN from_str_vec_rest(n.rest, Append(a[2], n.value))
                 ELSE ParseFail)
        ELSE ParseFail)

from_str_vec(text) ==
    With(parse_whitespace(text), LAMBDA t :
        IF ~Starts(t, "[") THEN ParseFail
        ELSE With(parse_whitespace(Tail(t)), LAMBDA u :
                 IF Starts(u, "]") THEN Parsed(<<>>, Tail(u))
                 ELSE With(from_str_i32(u), LAMBDA n :
                          IF n.ok THEN from_str_vec_rest(n.rest, <<n.value>>)
                          ELSE ParseFail)))

\* One "key":[...] entry, inserted into the map read so far (a repeated key
\* replaces the earlier entry).
from_str_entry(text, acc) ==
    With(from_str_string(text), LAMBDA k :
    With(IF k.ok THEN parse_whitespace(k.rest) ELSE <<>>, LAMBDA c :
        IF ~k.ok \/ ~Starts(c, ":") THEN ParseFail
        ELSE With(from_str_vec(Tail(c)), LAMBDA v :
                 IF v.ok THEN Parsed((k.value :> v.value) @@ acc, v.rest)
                 ELSE ParseFail)))

\* The entries after the first, up to the closing brace; a comma is followed
\* by an entry.
RECURSIVE from_str_entries(_, _)
from_str_entries(text, acc) ==
    With(<<parse_whitespace(text), acc>>, LAMBDA a :
        IF Starts(a[1], "}") THEN Parsed(a[2], Tail(a[1]))
        ELSE IF Starts(a[1], ",")
        THEN With(from_str_entry(Tail(a[1]), a[2]), LAMBDA e :
                 IF e.ok THEN from_str_entries(e.rest, e.value) ELSE ParseFail)
        ELSE ParseFail)

\* serde_json::to_string(&(name, num)): a two-element array.
tuple_to_string(name, num) ==
    <<"[">> \o json_string(name) \o <<",">> \o json_i32(num) \o <<"]">>

\* serde_json::from_str::<(String, i32)>: Some(<<name, num>>), or None for
\* Err; after the closing bracket only white space may follow.
from_str_tuple(text) ==
    With(parse_whitespace(text), LAMBDA t :
    With(IF Starts(t, "[") THEN from_str_string(Tail(t)) ELSE ParseFail, LAMBDA n :
    With(IF n.ok THEN parse_whitespace(n.rest) ELSE <<>>, LAMBDA c :
    With(IF Starts(c, ",") THEN from_str_i32(Tail(c)) ELSE ParseFail, LAMBDA i :
    With(IF i.ok THEN parse_whitespace(i.rest) ELSE <<>>, LAMBDA e :
        IF Starts(e, "]") /\ parse_whitespace(Tail(e)) = <<>>
        THEN Some(<<n.value, i.value>>) ELSE None)))))

\* serde_json::from_str::<HashMap<String, Vec<i32>>>: Some(mapping), or None
\* for Err; after the closing brace only white space may follow.
from_str(text) ==
    With(parse_whitespace(text), LAMBDA t :
    With(IF Starts(t, "{") THEN parse_whitespace(Tail(t)) ELSE <<>>, LAMBDA u :
    With(IF ~Starts(t, "{") THEN ParseFail
         ELSE IF Starts(u, "}") THEN Parsed(<<>>, Tail(u))
         ELSE With(from_str_entry(u, <<>>), LAMBDA e :
                  IF e.ok THEN from_str_entries(e.rest, e.value) ELSE ParseFail),
         LAMBDA r :
        IF r.ok /\ parse_whitespace(r.rest) = <<>> THEN Some(r.value) ELSE None)))

\* The text of a mapping whose keys are Strings, the keys in this order.
to_text(mapping, order) ==
    With(<<mapping, order>>, LAMBDA a :
        to_string([k \in {Chars(o) : o \in DOMAIN a[1]} |-> a[1][Concat(k)]],
                  [i \in DOMAIN a[2] |-> Chars(a[2][i])]))

\* The mapping with its keys as Strings.
Strings(m) ==
    [o \in {Concat(k) : k \in DOMAIN m} |-> m[CHOOSE k \in DOMAIN m : Concat(k) = o]]

\* What the bytes read from a file give: String::from_utf8, then from_str.
Parse(text) ==
    IF ~IsUtf8(text) THEN NotUtf8
    ELSE With(from_str(text), LAMBDA m :
             IF IsSome(m) THEN Json(Strings(Unwrap(m))) ELSE Invalid)

\* What a process that reads the file as it is now, with no other process
\* at work on it, has loaded.
Load(file) == IF file.kind = "missing" THEN NoFile ELSE Parse(file.text)

(***************************************************************************)
(* std::fs on one file.  fs::write(path, data) is File::create, which      *)
(* creates the file or truncates it, and write_all, which writes from the  *)
(* start of the file: it replaces the first Len(data) bytes and leaves     *)
(* what another writer has put behind them.  fs::read_to_string(path) is   *)
(* File::open, metadata for the size to expect, and read calls until one   *)
(* returns nothing.  The String is reserved with the expected size; a read *)
(* is given the spare capacity of the buffer, but a buffer that is full at *)
(* the capacity it started with is probed first, with a read into          *)
(* PROBE_SIZE bytes on the stack, and grows only when the probe brings     *)
(* bytes (Vec grows to twice its capacity, to what is needed, or to 8      *)
(* bytes, whichever is more).  io = [pc, hint, cap, buf] is the reader's   *)
(* place: what it does next, the size metadata gave, the capacity of the   *)
(* buffer and the bytes read so far.                                       *)
(***************************************************************************)
PROBE_SIZE == 32
Closed == [pc |-> "closed", hint |-> 0, cap |-> 0, buf |-> <<>>]

\* File::create
file_create(file) == TextFile(<<>>)

\* write_all on a handle File::create returned.
file_write(file, data) ==
    TextFile(data \o SubSeq(file.text, Len(data) + 1, Len(file.text)))

\* File::open for reading, on a file that exists.
file_open(file) == [pc |-> "opened", hint |-> 0, cap |-> 0, buf |-> <<>>]

\* File::metadata and try_reserve_exact: the length of the file, and a
\* buffer of that capacity.
file_metadata(file, io) ==
    [io EXCEPT !.pc = "reading", !.hint = Len(file.text), !.cap = Len(file.text)]

\* One read call of default_read_to_end, from where the last one ended: the
\* reader with the bytes it returned; pc = "eof" when it returned none.
file_read(file, io) ==
    LET len   == Len(io.buf)
        grow(additional) ==
            LET need == len + additional
                most == IF 2 * io.cap > need THEN 2 * io.cap ELSE need
            IN  IF most < 8 THEN 8 ELSE most
        probe == len = io.cap /\ io.cap = io.hint
        cap   == IF ~probe /\ len = io.cap THEN grow(PROBE_SIZE) ELSE io.cap
        room  == IF probe THEN PROBE_SIZE ELSE cap - len
        left  == IF Len(file.text) > len THEN Len(file.text) - len ELSE 0
        n     == IF room < left THEN room ELSE left
    IN  IF n = 0 THEN [io EXCEPT !.pc = "eof"]
        ELSE [io EXCEPT !.buf = @ \o SubSeq(file.text, len + 1, len + n),
                        !.cap = IF probe THEN grow(n) ELSE cap]

(***************************************************************************)
(* Connection (src/src/bin/ws.rs): each method formats one payload and     *)
(* hands it to run_command.  A script is the sequence of steps a function  *)
(* takes when every step succeeds, with the result it then returns.        *)
(***************************************************************************)
Ok(steps) == [steps |-> steps, result |-> "ok"]
Err(steps, e) == [steps |-> steps, result |-> e]
\* a ?-chain: b runs only after a returned Ok
Then(a, b) ==
    IF a.result = "ok" THEN [steps |-> a.steps \o b.steps, result |-> b.result]
    ELSE a

Query(q) == [kind |-> "query", text |-> q, cmd |-> <<>>]
QueryOrDefault(q) == [kind |-> "default", text |-> q, cmd |-> <<>>]
ReadFile(f) == [kind |-> "file", text |-> f, cmd |-> <<>>]
\* fs::write(f, data): File::create, which truncates, then the write.
Create(f) == [kind |-> "create", text |-> f, cmd |-> <<>>]
Write(f, data) == [kind |-> "write", text |-> f, cmd |-> data]
Command(op, byNum, num, ws, output, text) ==
    [kind |-> "cmd", text |-> text,
     cmd |-> [op |-> op, byNum |-> byNum, num |-> num, ws |-> ws, output |-> output]]

\* Connection::run
run(step) == Ok(<<step>>)

conn_workspace_num(num) ==
    run(Command("workspace", TRUE, num, ToString(num), "",
                "workspace number " \o ToString(num)))

conn_workspace_name(name) ==
    run(Command("workspace", FALSE, -1, name, "", "workspace " \o name))

\* Variant: the name is dropped when a number is given.
conn_workspace_num_only(num, name) ==
    IF IsSome(num) THEN conn_workspace_num(Unwrap(num))
    ELSE conn_workspace_name(Unwrap(name))

conn_workspace(num, name) ==
    IF IsSome(num)
    THEN IF IsSome(name)
         THEN run(Command("workspace", TRUE, Unwrap(num),
                          ToString(Unwrap(num)) \o ":" \o Unwrap(name), "",
                          "workspace number " \o ToString(Unwrap(num)) \o ":" \o Unwrap(name)))
         ELSE conn_workspace_num(Unwrap(num))
    ELSE IF IsSome(name)
         THEN conn_workspace_name(Unwrap(name))
         ELSE Err(<<>>, "NeitherNumNorNameProvided")

conn_move_to_workspace_num(num) ==
    run(Command("move_to_workspace", TRUE, num, ToString(num), "",
                "move to workspace number " \o ToString(num)))

conn_move_to_workspace_name(name) ==
    run(Command("move_to_workspace", FALSE, -1, name, "", "move to workspace " \o name))

conn_move_to_workspace(num, name) ==
    IF IsSome(num)
    THEN IF IsSome(name)
         THEN run(Command("move_to_workspace", TRUE, Unwrap(num),
                          ToString(Unwrap(num)) \o ":" \o Unwrap(name), "",
                          "move to workspace number " \o ToString(Unwrap(num)) \o ":" \o Unwrap(name)))
         ELSE conn_move_to_workspace_num(Unwrap(num))
    ELSE IF IsSome(name)
         THEN conn_move_to_workspace_name(Unwrap(name))
         ELSE Err(<<>>, "NeitherNumNorNameProvided")

conn_move_workspace_to_output(output) ==
    run(Command("move_workspace_to_output", FALSE, -1, "", output,
                "move workspace to output " \o output))

conn_focus_output(name) ==
    run(Command("focus_output", FALSE, -1, "", name, "focus output " \o name))

(***************************************************************************)
(* Sway (src/src/bin/ws.rs): the snapshot helpers.                         *)
(***************************************************************************)
\* Iterator::find on a list: the first element satisfying P, or None.
FirstIdx(I) == CHOOSE i \in I : \A j \in I : i <= j

\* Variant: a workspace with the name is preferred to one with the number.
workspace_by_name_then_num(wss, num, name) ==
    LET N == {i \in DOMAIN wss : IsSome(name) /\ Unwrap(name) = wss[i].name}
        M == {i \in DOMAIN wss : IsSome(num) /\ Unwrap(num) = wss[i].num}
    IN  IF N # {} THEN Some(wss[FirstIdx(N)])
        ELSE IF M # {} THEN Some(wss[FirstIdx(M)])
        ELSE None

workspace_by_num_or_name(wss, num, name) ==
    LET I == {i \in DOMAIN wss :
                \/ IsSome(name) /\ Unwrap(name) = wss[i].name
                \/ IsSome(num) /\ Unwrap(num) = wss[i].num}
    IN  IF I = {} THEN None ELSE Some(wss[FirstIdx(I)])

focused_workspace(wss) ==
    LET I == {i \in DOMAIN wss : wss[i].focused}
    IN  IF I = {} THEN None ELSE Some(wss[FirstIdx(I)])

focused_output(outs) ==
    LET I == {i \in DOMAIN outs : outs[i].focused}
    IN  IF I = {} THEN None ELSE Some(outs[FirstIdx(I)])

update_workspaces == Ok(<<Query("get_workspaces")>>)
update_outputs == Ok(<<Query("get_outputs")>>)

\* Variant: a file that cannot be loaded counts as the empty mapping.
load_mapping_or_empty(file) == Ok(<<ReadFile("mapping_file")>>)

\* Sway::load_mapping: read_to_string and from_str, each with `?`.  A file
\* that is missing or is not UTF-8 fails in read_to_string, a text that is no
\* mapping in from_str.
load_mapping(file) ==
    CASE file.kind \in {"missing", "notutf8"} ->
                                  Err(<<ReadFile("mapping_file")>>, "Io")
      [] file.kind = "invalid" -> Err(<<ReadFile("mapping_file")>>, "SerdeJson")
      [] OTHER                 -> Ok(<<ReadFile("mapping_file")>>)

\* sway.mapping.iter().find(|(_, ws)| ws.contains(&number)): a HashMap iterates
\* in an order fixed per process only; `order` is that order of the keys.
mapping_find(mapping, order, number) ==
    LET I == {i \in DOMAIN order :
                order[i] \in DOMAIN mapping /\ Contains(mapping[order[i]], number)}
    IN  IF I = {} THEN None ELSE Some(order[FirstIdx(I)])

(***************************************************************************)
(* The snapshot cache of a Sway value: cache = [workspaces, outputs], each *)
(* None or Some(list).                                                     *)
(***************************************************************************)
EmptyCache == [workspaces |-> None, outputs |-> None]
Fetch(which, c) == IF which = "workspaces" THEN GetWorkspaces(c) ELSE GetOutputs(c)

\* Variant: every update fetches.
cache_update_always(which, cache, c) ==
    [cache |-> [cache EXCEPT ![which] = Some(Fetch(which, c))], queries |-> 1]

\* update_workspaces / update_outputs: fetch only when nothing is cached.
cache_update(which, cache, c) ==
    IF ~IsSome(cache[which])
    THEN [cache |-> [cache EXCEPT ![which] = Some(Fetch(which, c))], queries |-> 1]
    ELSE [cache |-> cache, queries |-> 0]

\* workspaces() / outputs(): what is cached, as_ref().
cache_get(which, cache) == cache[which]

\* reset_workspaces / reset_outputs
cache_reset(which, cache) == [cache EXCEPT ![which] = None]

(***************************************************************************)
(* The subcommands.  args = [number, name, no_auto_back_and_forth]; wss and *)
(* outs are the snapshots get_workspaces and get_outputs return, file is    *)
(* what was loaded of the mapping file.                                     *)
(***************************************************************************)
\* Variant: the flag and the comparison with the focused workspace are
\* ignored.
focus_existing_always(target, focused, args) ==
    conn_workspace(args.number, args.name)

\* Variant: the target's output is focused before the target.
focus_existing_via_output(target, focused, args) ==
    Then(conn_focus_output(target.output), conn_workspace(args.number, args.name))

\* ws_focus, the target workspace already exists (lines 131-141)
focus_existing(target, focused, args) ==
    IF /\ target.num = focused.num
       /\ target.name = focused.name
       /\ args.no_auto_back_and_forth
    THEN Ok(<<>>)
    ELSE conn_workspace(args.number, args.name)

\* Variant: the sequence stops on the original workspace.
focus_corrective_short(output_str, focused_name, args) ==
    Then(conn_focus_output(output_str),
    Then(conn_workspace(args.number, args.name),
         conn_workspace_name(focused_name)))

\* Variant: the original workspace is not visited in between.
focus_corrective_direct(output_str, focused_name, args) ==
    Then(conn_focus_output(output_str),
    Then(conn_workspace(args.number, args.name),
         conn_workspace(args.number, args.name)))

\* ws_focus, steps 1 to 4 towards the output that claims the number
\* (lines 165-174)
focus_corrective(output_str, focused_name, args) ==
    Then(conn_focus_output(output_str),
    Then(conn_workspace(args.number, args.name),
    Then(conn_workspace_name(focused_name),
         conn_workspace(args.number, args.name))))

\* Variant: the focused output is not compared with the claiming one.
focus_new_numbered_always_corrective(outs, file, focused, args, order) ==
    Then(load_mapping(file), Then(update_outputs,
    LET found == mapping_find(file.map, order, Unwrap(args.number))
    IN  IF IsSome(found)
        THEN focus_corrective(Unwrap(found), focused.name, args)
        ELSE conn_workspace(args.number, args.name)))

\* ws_focus, the numbered workspace does not exist yet (lines 149-182)
focus_new_numbered(outs, file, focused, args, order) ==
    Then(load_mapping(file), Then(update_outputs,
    LET found == mapping_find(file.map, order, Unwrap(args.number))
        fo    == focused_output(outs)
    IN  IF IsSome(found)
        THEN IF ~IsSome(fo) THEN Err(<<>>, "NoFocusedOutput")
             ELSE IF Unwrap(fo).name = Unwrap(found)
             THEN conn_workspace(args.number, args.name)
             ELSE focus_corrective(Unwrap(found), focused.name, args)
        ELSE conn_workspace(args.number, args.name)))

\* Variant: the mapping and the outputs are fetched before the number is
\* looked at.
focus_missing_mapped(outs, file, focused, args, order) ==
    Then(load_mapping(file), Then(update_outputs,
    IF ~IsSome(args.number)
    THEN conn_workspace_name(Unwrap(args.name))
    ELSE focus_new_numbered(outs, file, focused, args, order)))

\* ws_focus, the target does not exist (lines 143-182)
focus_missing(outs, file, focused, args, order) ==
    IF ~IsSome(args.number)
    THEN conn_workspace_name(Unwrap(args.name))
    ELSE focus_new_numbered(outs, file, focused, args, order)

\* Variant: an existing target is focused without looking for the focused
\* workspace.
ws_focus_target_first(wss, outs, file, args, order) ==
    LET target  == workspace_by_num_or_name(wss, args.number, args.name)
        focused == focused_workspace(wss)
    IN  Then(update_workspaces,
        IF IsSome(target) THEN conn_workspace(args.number, args.name)
        ELSE IF ~IsSome(focused) THEN Err(<<>>, "NoFocusedWorkspace")
        ELSE focus_missing(outs, file, Unwrap(focused), args, order))

ws_focus(wss, outs, file, args, order) ==
    LET target  == workspace_by_num_or_name(wss, args.number, args.name)
        focused == focused_workspace(wss)
    IN  Then(update_workspaces,
        IF ~IsSome(focused) THEN Err(<<>>, "NoFocusedWorkspace")
        ELSE IF IsSome(target)
        THEN focus_existing(Unwrap(target), Unwrap(focused), args)
        ELSE focus_missing(outs, file, Unwrap(focused), args, order))

\* Variant: the workspace is sent to the first output after the move.
ws_move_relocating(wss, file, args) ==
    Then(conn_move_to_workspace(args.number, args.name),
         conn_move_workspace_to_output(Outputs[1]))

\* Variant: an entry already made for the output is kept.
map_insert_keep(outs, maps, mapping) ==
    IF maps = <<>> THEN mapping
    ELSE LET output_str == Head(maps).output
             I == {i \in DOMAIN outs :
                     \/ outs[i].name = output_str
                     \/ output_str = outs[i].make \o " " \o outs[i].model
                                        \o " " \o outs[i].serial}
         IN  IF I # {} /\ outs[FirstIdx(I)].name \notin DOMAIN mapping
             THEN (outs[FirstIdx(I)].name :> Head(maps).workspaces) @@ mapping
             ELSE mapping

\* Variant: a token is entered under the output it names, found or not.
map_insert_unresolved(outs, maps, mapping) ==
    IF maps = <<>> THEN mapping
    ELSE LET output_str == Head(maps).output
             I == {i \in DOMAIN outs :
                     \/ outs[i].name = output_str
                     \/ output_str = outs[i].make \o " " \o outs[i].model
                                        \o " " \o outs[i].serial}
         IN  IF I # {}
             THEN (outs[FirstIdx(I)].name :> Head(maps).workspaces) @@ mapping
             ELSE (output_str :> Head(maps).workspaces) @@ mapping

\* ws_map, one token (lines 359-365): the first output with that name or that
\* "make model serial" gets the token's numbers as its entry.
map_insert(outs, maps, mapping) ==
    IF maps = <<>> THEN mapping
    ELSE LET output_str == Head(maps).output
             I == {i \in DOMAIN outs :
                     \/ outs[i].name = output_str
                     \/ output_str = outs[i].make \o " " \o outs[i].model
                                        \o " " \o outs[i].serial}
         IN  IF I # {}
             THEN (outs[FirstIdx(I)].name :> Head(maps).workspaces) @@ mapping
             ELSE mapping

\* ws_map, the loop over the tokens (lines 358-366).
RECURSIVE map_inserts(_, _, _)
map_inserts(outs, maps, mapping) ==
    IF maps = <<>> THEN mapping
    ELSE map_inserts(outs, Tail(maps), map_insert(outs, maps, mapping))

\* Variant: the entries of the mapping file are taken over first.
ws_map_merging(outs, file, maps) ==
    [script |-> Then(update_outputs, Ok(<<ReadFile("mapping_file")>>)),
     mapping |-> map_inserts(outs, maps, file.map)]

\* ws_map up to save_mapping: the outputs are fetched and the tokens entered
\* into sway.mapping, which Sway::new left empty; the file is not loaded.
ws_map(outs, file, maps) ==
    [script |-> update_outputs, mapping |-> map_inserts(outs, maps, <<>>)]

\* save_mapping: fs::write of the serialized mapping; order: the keys as the
\* HashMap iterates.
save_mapping(mapping, order) ==
    Ok(<<Create("mapping_file"), Write("mapping_file", to_text(mapping, order))>>)

\* ws_move returns right after the move-container command (line 190); the
\* statements after that return are never executed.
ws_move(wss, file, args) ==
    conn_move_to_workspace(args.number, args.name)

(***************************************************************************)
(* workspaces-to-outputs (src/src/bin/workspaces-to-outputs.rs, lib.rs).   *)
(***************************************************************************)
\* output_if_exists: the name of the first output with that name or that
\* "make model serial".
output_if_exists(output, outs) ==
    LET I == {i \in DOMAIN outs :
                \/ output = outs[i].name
                \/ output = outs[i].make \o " " \o outs[i].model \o " " \o outs[i].serial}
    IN  IF I = {} THEN None ELSE Some(outs[FirstIdx(I)].name)

\* str::rfind(ch): the position of the last ch, 0 without any.
rfind(str, ch) ==
    IF ~HasChar(str, ch) THEN 0
    ELSE CHOOSE k \in DOMAIN str : str[k] = ch /\ \A j \in (k + 1)..Len(str) : str[j] # ch

\* add_mapping: "output:number" or "output:from-to" entered into workspaces;
\* anything else leaves workspaces as it is.
add_mapping(mapping, workspaces, outs) ==
    LET colon  == rfind(mapping, ":")
        output == output_if_exists(Concat(SubSeq(mapping, 1, colon - 1)), outs)
        str    == SubSeq(mapping, colon + 1, Len(mapping))
        dash   == split_once(str, "-")
    IN  IF colon = 0 \/ ~IsSome(output) THEN workspaces
        ELSE IF IsSome(dash)
        THEN LET left  == parse_i32(Unwrap(dash)[1])
                 right == parse_i32(Unwrap(dash)[2])
             IN  IF ~IsSome(left) \/ ~IsSome(right) THEN workspaces
                 ELSE (Unwrap(output) :>
                          (IF Unwrap(left) <= Unwrap(right)
                           THEN Range(Unwrap(left), Unwrap(right))
                           ELSE Range(Unwrap(right), Unwrap(left)))) @@ workspaces
        ELSE LET number == parse_i32(str)
             IN  IF ~IsSome(number) THEN workspaces
                 ELSE (Unwrap(output) :> <<Unwrap(number)>>) @@ workspaces

\* make_config: every mapping string in turn; outs holds the replies to the
\* get_outputs queries made so far, one query per mapping string (an empty
\* list stands for a reply not received yet).
RECURSIVE make_config(_, _, _)
make_config(mappings, workspaces, outs) ==
    IF mappings = <<>> THEN workspaces
    ELSE IF rfind(Head(mappings), ":") = 0
    THEN make_config(Tail(mappings), workspaces, outs)
    ELSE make_config(Tail(mappings),
                     add_mapping(Head(mappings), workspaces,
                                 IF outs = <<>> THEN <<>> ELSE Head(outs)),
                     IF outs = <<>> THEN <<>> ELSE Tail(outs))

\* The get_outputs queries of make_config: output_if_exists asks once for
\* every mapping string that has a colon.
make_config_queries(mappings) ==
    LET with == SelectSeq(mappings, LAMBDA m : rfind(m, ":") # 0)
    IN  [i \in DOMAIN with |-> QueryOrDefault("get_outputs")]

\* save_config: fs::write of the serialized config; the result is dropped.
save_config(config, order) ==
    Ok(<<Create("config_file"), Write("config_file", to_text(config, order))>>)

\* load_config: the mapping in the config file; a file that is missing or is
\* not UTF-8 is read as "" (unwrap_or_default), and a text that is no mapping
\* gives Err, here None.
load_config(file) == IF file.kind = "json" THEN Some(file.map) ELSE None

\* workspace_exists: some workspace has the number.
workspace_exists(workspace_num, wss) ==
    \E i \in DOMAIN wss : wss[i].num = workspace_num

\* get_output_for_workspace: the first output, as the HashMap iterates, whose
\* list contains the number.
get_output_for_workspace(workspace_num, file, order) ==
    LET config == load_config(file)
    IN  IF ~IsSome(config) THEN None
        ELSE mapping_find(Unwrap(config), order, workspace_num)

\* initialize_workspace: the output (the one given when it is connected, else
\* the one the config has for the workspace) and whether the workspace
\* exists.
initialize_workspace(cli, outs, wss, file, order) ==
    LET given == IF IsSome(cli.output)
                 THEN output_if_exists(Unwrap(cli.output), outs) ELSE None
    IN  [output |-> IF IsSome(given) THEN given
                    ELSE get_output_for_workspace(cli.workspace, file, order),
         workspace_exists |-> workspace_exists(cli.workspace, wss)]

\* "[workspace=N] move workspace to 'OUTPUT'"
criteria_move(num, output) ==
    Command("criteria_move", FALSE, -1, ToString(num), output,
            "[workspace=" \o ToString(num) \o "] move workspace to '" \o output \o "'")

\* The queries of initialize_workspace: get_outputs when an output is given,
\* the config file when that gave no output, get_workspaces.
initialize_reads(cli, outs) ==
    (IF IsSome(cli.output) THEN <<QueryOrDefault("get_outputs")>> ELSE <<>>)
    \o (IF IsSome(cli.output) /\ IsSome(output_if_exists(Unwrap(cli.output), outs))
        THEN <<>> ELSE <<ReadFile("config_file")>>)
    \o <<QueryOrDefault("get_workspaces")>>

\* workspace.rs and move_to_workspace.rs, main: the first command, then the
\* move to the output when the workspace is new and an output is known.
legacy_main(tool, cli, init) ==
    Ok(<<IF tool = "workspace"
         THEN Command("workspace", FALSE, -1, ToString(cli.workspace), "",
                      "workspace " \o ToString(cli.workspace))
         ELSE Command("move_to_workspace", TRUE, cli.workspace, ToString(cli.workspace), "",
                      "move to workspace number " \o ToString(cli.workspace))>>
       \o (IF ~init.workspace_exists /\ IsSome(init.output)
           THEN <<criteria_move(cli.workspace, Unwrap(init.output))>>
           ELSE <<>>))

\* The payload that selects a workspace and moves it to an output.
select_and_move(num, output) ==
    Command("select_and_move", TRUE, num, ToString(num), output,
            "workspace --no-auto-back-and-forth number " \o ToString(num)
                \o ", move workspace to output '" \o output \o "'")

\* move_workspaces, lines 43-63 for one workspace: st = [steps, claimed]
\* after the outputs order[1..j-1].
RECURSIVE bulk_outputs(_, _, _, _, _)
bulk_outputs(ws, mappings, order, j, st) ==
    IF j > Len(order) THEN st
    ELSE IF ~Contains(mappings[order[j]], ws.num)
    THEN bulk_outputs(ws, mappings, order, j + 1, st)
    ELSE IF ws.output = order[j]
    THEN [st EXCEPT !.claimed = @ \cup {order[j]}]
    ELSE bulk_outputs(ws, mappings, order, j + 1,
                      [steps   |-> Append(st.steps, select_and_move(ws.num, order[j])),
                       claimed |-> st.claimed \cup {order[j]}])

\* move_workspaces, lines 37-64: every workspace of the snapshot.
RECURSIVE bulk_workspaces(_, _, _, _, _)
bulk_workspaces(wss, mappings, order, i, st) ==
    IF i > Len(wss) THEN st
    ELSE bulk_workspaces(wss, mappings, order, i + 1,
                         bulk_outputs(wss[i], mappings, order, 1, st))

\* The commands of the loop over the workspaces.
bulk_corrections(wss, mappings, order) ==
    bulk_workspaces(wss, mappings, order, 1, [steps |-> <<>>, claimed |-> {}]).steps

\* move_workspaces, lines 67-76: the outputs left empty, as the HashSet
\* iterates, get the first workspace of their list.
bulk_fill(mappings, empty) ==
    [j \in DOMAIN empty |->
        [select_and_move(mappings[empty[j]][1], empty[j]) EXCEPT !.kind = "try"]]

\* move_workspaces, lines 79-82: back to the workspace that was focused.
bulk_restore(wss) ==
    LET I == {i \in DOMAIN wss : wss[i].focused}
    IN  IF I = {} THEN <<>>
        ELSE LET num == wss[CHOOSE i \in I : \A j \in I : j <= i].num
             IN  <<Command("workspace_no_abf", TRUE, num, ToString(num), "",
                           "workspace --no-auto-back-and-forth number " \o ToString(num))>>

\* The outputs no workspace of the snapshot was found for.
empty_outputs(wss, mappings, order) ==
    DOMAIN mappings
        \ bulk_workspaces(wss, mappings, order, 1, [steps |-> <<>>, claimed |-> {}]).claimed

\* move_workspaces: the snapshot, the corrections, the fill pass, the focus.
move_workspaces(mappings, wss, order, empty) ==
    Ok(<<QueryOrDefault("get_workspaces")>>
       \o bulk_corrections(wss, mappings, order)
       \o bulk_fill(mappings, empty)
       \o bulk_restore(wss))

(***************************************************************************)
(* Processes.  A process that runs holds what it was started with (op,     *)
(* args, dry; failAt = k > 0: its k-th IPC call fails in the transport),   *)
(* what it has received (wss: the reply to get_workspaces, outs: the       *)
(* replies to get_outputs in order, file: the mapping or config file as    *)
(* loaded, io: its place in a file it is reading), the orders in which its *)
(* HashMap and HashSet iterate, and what it                                *)
(* has done (done: steps of its script taken, ipc: IPC calls made, cmds:   *)
(* the payloads handed to run_command, reads: the queries and files read). *)
(* before is what the process never asks for but the properties speak of  *)
(* (the mapping file when `ws map` started, the workspaces when `ws move`  *)
(* or one of the older tools started, whether the workspaces agreed with   *)
(* the mapping file), and                                                  *)
(* overlapped tells whether another invocation was running at one of its   *)
(* steps; neither is known to the process.                                 *)
(***************************************************************************)
Ready == [pc |-> "ready"]
Done == [pc |-> "done"]

\* Every numbered workspace of c whose number an output claims in the
\* mapping f loaded from the file is on that output.
Consistent(c, f) ==
    \A w \in c.ws : \A o \in DOMAIN f.map :
        Contains(f.map[o], w.num) => w.output = o

NewProc(action, op, args, dry, failAt) ==
    With(Load(mappingFile), LAMBDA loaded :
    [pc |-> "run", action |-> action, op |-> op, args |-> args, dry |-> dry,
     failAt |-> failAt,
     wss |-> <<>>, outs |-> <<>>, file |-> NoFile, io |-> Closed,
     order |-> <<>>, empty |-> <<>>,
     done |-> 0, ipc |-> 0, cmds |-> <<>>, reads |-> <<>>, result |-> "ok",
     before |-> [file |-> IF op = "map" THEN loaded ELSE NoFile,
                 wss  |-> IF op \in {"move", "workspace", "move_to_workspace"}
                          THEN GetWorkspaces(comp) ELSE <<>>,
                 consistent |-> op \in {"focus", "move"} /\ Consistent(comp, loaded)],
     overlapped |-> FALSE])

\* The k-th reply to get_outputs, empty when it has not come yet.
Reply(outs, k) == IF k \in DOMAIN outs THEN outs[k] ELSE <<>>

\* The shared state a process acts on.
Env ==
    [comp |-> comp, mapping_file |-> mappingFile, config_file |-> configFile,
     previous_file |-> previousFile]

\* Variant: a command that fails is passed over.
run_command_continuing(st, s) ==
    IF st.p.dry
    THEN [st EXCEPT !.p.cmds = Append(@, s.text), !.p.done = @ + 1]
    ELSE IF st.p.ipc + 1 = st.p.failAt
    THEN [st EXCEPT !.p.cmds = Append(@, s.text), !.p.ipc = @ + 1, !.p.done = @ + 1]
    ELSE [st EXCEPT !.env.comp = SwayRun(@, s.cmd),
                    !.p.cmds = Append(@, s.text), !.p.ipc = @ + 1, !.p.done = @ + 1]

\* Connection::run_command: under --dry-run the payload is printed, else it
\* is sent and the compositor runs it; an error of the transport is returned
\* (and every caller passes it on with `?`).  st = [p, env].
run_command(st, s) ==
    IF st.p.dry
    THEN [st EXCEPT !.p.cmds = Append(@, s.text), !.p.done = @ + 1]
    ELSE IF st.p.ipc + 1 = st.p.failAt
    THEN [st EXCEPT !.p.cmds = Append(@, s.text), !.p.result = "Sway"]
    ELSE [st EXCEPT !.env.comp = SwayRun(@, s.cmd),
                    !.p.cmds = Append(@, s.text), !.p.ipc = @ + 1, !.p.done = @ + 1]

\* swayipc's run_command where the caller drops the result (the fill pass of
\* workspaces-to-outputs): a failure is not noticed.
try_command(st, s) ==
    IF st.p.ipc + 1 = st.p.failAt
    THEN [st EXCEPT !.p.cmds = Append(@, s.text), !.p.ipc = @ + 1, !.p.done = @ + 1]
    ELSE [st EXCEPT !.env.comp = SwayRun(@, s.cmd),
                    !.p.cmds = Append(@, s.text), !.p.ipc = @ + 1, !.p.done = @ + 1]

\* get_workspaces / get_outputs with unwrap_or_default() (lib.rs,
\* workspaces-to-outputs.rs): a query that fails gives the empty list, and
\* the tool goes on.
query_or_default(st, s) ==
    With(st.p.ipc + 1 = st.p.failAt, LAMBDA failed :
    [st EXCEPT !.p.reads = Append(@, s.text), !.p.ipc = @ + 1, !.p.done = @ + 1,
               !.p.wss = IF s.text # "get_workspaces" THEN @
                         ELSE IF failed THEN <<>> ELSE GetWorkspaces(st.env.comp),
               !.p.outs = IF s.text # "get_outputs" THEN @
                          ELSE IF failed THEN Append(@, <<>>)
                          ELSE Append(@, GetOutputs(st.env.comp))])

\* get_workspaces / get_outputs in ws, where `?` passes the error on: the
\* reply is what the compositor holds at that moment.
query(st, s) ==
    IF st.p.ipc + 1 = st.p.failAt THEN [st EXCEPT !.p.result = "Sway"]
    ELSE [st EXCEPT !.p.reads = Append(@, s.text), !.p.ipc = @ + 1, !.p.done = @ + 1,
                    !.p.wss = IF s.text = "get_workspaces"
                              THEN GetWorkspaces(st.env.comp) ELSE @,
                    !.p.outs = IF s.text = "get_outputs"
                               THEN Append(@, GetOutputs(st.env.comp)) ELSE @]

\* fs::read_to_string, the next system call of it: File::open (a missing
\* file ends the read), metadata, or a read; the read that returns nothing
\* ends it, and the bytes are checked for UTF-8 and parsed.
read_to_string(st, s) ==
    LET file == st.env[s.text]
        io   == st.p.io
    IN  CASE io.pc = "closed" /\ file.kind = "missing" ->
                [st EXCEPT !.p.reads = Append(@, s.text), !.p.done = @ + 1,
                           !.p.file = NoFile]
          [] io.pc = "closed" ->
                [st EXCEPT !.p.reads = Append(@, s.text), !.p.io = file_open(file)]
          [] io.pc = "opened" ->
                [st EXCEPT !.p.io = file_metadata(file, io)]
          [] file_read(file, io).pc # "eof" ->
                [st EXCEPT !.p.io = file_read(file, io)]
          [] OTHER ->
                [st EXCEPT !.p.done = @ + 1, !.p.file = Parse(io.buf), !.p.io = Closed]

\* fs::write, File::create: the file is there and empty.
create(st, s) ==
    [st EXCEPT !.p.done = @ + 1, !.env[s.text] = file_create(@)]

\* fs::write, write_all: the data is written from the start of the file.
write_all(st, s) ==
    [st EXCEPT !.p.done = @ + 1, !.env[s.text] = file_write(@, s.cmd)]

\* One step of a process: the exchange or system call s, on st = [p, env].
Exchange(st, s) ==
    CASE s.kind = "cmd"    -> run_command(st, s)
      [] s.kind = "try"    -> try_command(st, s)
      [] s.kind = "query"  -> query(st, s)
      [] s.kind = "default" -> query_or_default(st, s)
      [] s.kind = "file"   -> read_to_string(st, s)
      [] s.kind = "create" -> create(st, s)
      [] OTHER             -> write_all(st, s)

\* The exchanges of a whole script made one after the other with nothing in
\* between, from the compositor c: what an invocation does when no other
\* process takes a step while it runs.
RECURSIVE Exec(_, _)
Exec(st, steps) ==
    IF st.p.result # "ok" \/ st.p.done >= Len(steps) THEN st
    ELSE Exec(Exchange(st, steps[st.p.done + 1]), steps)

(***************************************************************************)
(* What an invocation leaves in `last` when it ends: what it was asked     *)
(* (op, args, dry), what it did (cmds, reads, result), what it had         *)
(* received (snap) and, for the properties, what its snapshot of the       *)
(* workspaces showed (pre) and whether it ran alone.                       *)
(***************************************************************************)
Ident(w) == [num |-> w.num, name |-> w.name, output |-> w.output]

Pre(wss, args) ==
    LET t == workspace_by_num_or_name(wss, args.number, args.name)
        f == focused_workspace(wss)
    IN  [target  |-> IF IsSome(t) THEN Some(Ident(Unwrap(t))) ELSE None,
         focused |-> IF IsSome(f) THEN Some(Ident(Unwrap(f))) ELSE None]

\* The payloads a script sends when nothing fails, and which of them is
\* the failAt-th IPC call (0: a query is, or none).
IsCmd(s) == s.kind \in {"cmd", "try"}
IsIpc(s) == s.kind \in {"cmd", "try", "query", "default"}
Planned(script) ==
    LET c == SelectSeq(script.steps, IsCmd)
    IN  [i \in DOMAIN c |-> c[i].text]
FailedCommand(script, failAt) ==
    LET ipc == SelectSeq(script.steps, IsIpc)
    IN  IF failAt \in DOMAIN ipc /\ IsCmd(ipc[failAt])
        THEN Cardinality({i \in 1..failAt : IsCmd(ipc[i])})
        ELSE 0

NoRecord(op) ==
    [op |-> op, args |-> [number |-> None, name |-> None, no_auto_back_and_forth |-> FALSE],
     dry |-> FALSE, cmds |-> <<>>, reads |-> <<>>, result |-> "ok", alone |-> TRUE,
     snap |-> [wss |-> <<>>, outs |-> <<>>, file |-> NoFile, order |-> <<>>, empty |-> <<>>],
     pre |-> [target |-> None, focused |-> None, file |-> NoFile, consistent |-> FALSE,
              wss |-> <<>>],
     planned |-> <<>>, failed |-> 0]

Record(p, script) ==
    [op |-> p.op, args |-> p.args, dry |-> p.dry,
     cmds |-> p.cmds, reads |-> p.reads,
     result |-> IF p.result = "ok" THEN script.result
                ELSE IF p.op \in {"focus", "move", "map"} THEN p.result ELSE "panic",
     alone |-> ~p.overlapped,
     snap |-> [wss |-> p.wss, outs |-> p.outs, file |-> p.file,
               order |-> p.order, empty |-> p.empty],
     pre |-> [file |-> p.before.file, consistent |-> p.before.consistent,
              wss |-> p.before.wss]
             @@ CASE p.op = "focus" -> Pre(p.wss, p.args)
                  [] p.op = "move"  -> Pre(p.before.wss, p.args)
                  [] OTHER -> [target |-> None, focused |-> None],
     planned |-> Planned(script),
     failed |-> FailedCommand(script, p.failAt)]

(***************************************************************************)
(* Inputs.                                                                 *)
(***************************************************************************)
OptNums == {None} \cup {Some(n) : n \in Nums}
OptNames == {None} \cup {Some(s) : s \in ArgNames}

\* clap: focus takes --number, NAME or both (here both only with the highest
\* number); move takes exactly one of them.
FocusArgs ==
    {a \in [number : OptNums, name : OptNames, no_auto_back_and_forth : BOOLEAN] :
        /\ IsSome(a.number) \/ IsSome(a.name)
        /\ IsSome(a.number) /\ IsSome(a.name) => a.number = Some(MaxNum)}
MoveArgs ==
    {a \in [number : OptNums, name : OptNames, no_auto_back_and_forth : BOOLEAN] :
        IsSome(a.number) # IsSome(a.name)}

\* The orders in which a HashMap with these keys may iterate.
KeyOrders(K) ==
    {o \in [1..Cardinality(K) -> K] : \A i, j \in DOMAIN o : i # j => o[i] # o[j]}

Claimers(mapping, n) == {o \in DOMAIN mapping : Contains(mapping[o], n)}
\* The keys of a mapping, the connected outputs first.
Keys(mapping) == SelectSeq(KnownOutputs, LAMBDA o : o \in DOMAIN mapping)
\* The orders in which the HashMap loaded from the file may iterate.  The
\* order decides something only when several keys claim the number looked
\* up; otherwise one order stands for all.
HashOrders(file, number) ==
    IF IsSome(number) /\ Cardinality(Claimers(file.map, Unwrap(number))) > 1
    THEN KeyOrders(DOMAIN file.map) ELSE {Keys(file.map)}

\* The file save_mapping (or save_config) leaves for this mapping when its
\* HashMap iterates in this order, and the files it may leave: one for every
\* order of the keys.
SavedAs(mapping, order) == TextFile(to_text(mapping, order))
Saved(mapping) == {SavedAs(mapping, order) : order \in KeyOrders(DOMAIN mapping)}

\* A file that is not UTF-8, and one whose text is cut short.
NotUtf8File ==
    TextFile(<<"0xff", "0xfe">>
                \o SavedAs(MakeMapping([o \in {Outputs[1]} |-> <<1>>]), <<Outputs[1]>>).text)
CutFile == TextFile(<<"{", Quote, Outputs[1], Quote, ":", "[", "1">>)

\* The files `ws map A:1-k` and `ws map A:1-k B:(k+1)-MaxNum` write, the
\* files in which both outputs claim every number, the files `ws map C:1-k`
\* and `ws map C:1-k B:1` wrote when the output C was still connected, each
\* with its keys in either order, and the files no mapping can be read from.
MappingFiles ==
    {Missing, CutFile, NotUtf8File}
    \cup Saved(MakeMapping([o \in OutputNames |-> Range(1, MaxNum)]))
    \cup UNION {Saved(MakeMapping([o \in OutputNames |->
                    IF o = Outputs[1] THEN Range(1, k) ELSE Range(k + 1, j)])) :
                  k \in 0..MaxNum, j \in {0, MaxNum}}
    \cup UNION {Saved(MakeMapping([o \in {Disconnected} |-> Range(1, k)])) : k \in {MaxNum}}
    \cup UNION {Saved(MakeMapping([o \in {Disconnected, Outputs[2]} |->
                    IF o = Disconnected THEN Range(1, k) ELSE Range(1, 1)])) :
                  k \in {MaxNum}}

(***************************************************************************)
(* The state machine.                                                      *)
(***************************************************************************)
\* The compositor in which every output shows its own numbered workspace,
\* holding win[output] windows, and the first is focused.
InitComp(win) ==
    [ws     |-> {[name |-> ToString(i), num |-> i, output |-> Outputs[i],
                  windows |-> win[Outputs[i]]] : i \in DOMAIN Outputs},
     focus  |-> ToString(1),
     active |-> [o \in OutputNames |-> ToString(OutIdx(o))],
     prev   |-> NoName]

\* The same with a workspace without a number shown on the first output.
InitCompNamed(win) ==
    LET name == CHOOSE n \in ArgNames : TRUE
    IN  [ws     |-> {[name |-> name, num |-> -1, output |-> Outputs[1],
                      windows |-> win[Outputs[1]]]}
                    \cup {[name |-> ToString(i), num |-> i, output |-> Outputs[i],
                           windows |-> win[Outputs[i]]] : i \in DOMAIN Outputs \ {1}},
         focus  |-> name,
         active |-> [o \in OutputNames |-> IF o = Outputs[1] THEN name
                                           ELSE ToString(OutIdx(o))],
         prev   |-> NoName]

\* get_previous_workspace: the (name, number) pair read from the file.
get_previous_workspace(file) ==
    IF file.kind = "text" /\ IsUtf8(file.text) THEN from_str_tuple(file.text) ELSE None

(***************************************************************************)
(* `ws monitor`.  The process is at one of: "off" (not started), "wait"    *)
(* (in events.next()), "handle" (an item was returned), "panicked".        *)
(***************************************************************************)
NoEvent == [kind |-> "none", old |-> None]
NotRunning == [pc |-> "off", stream |-> "closed", event |-> NoEvent, noted |-> None]

\* The names and numbers of the workspaces events tell of; -1 is the number
\* sway gives a workspace without a number.
EscapedName == <<"w", Quote, ControlChar(9), ControlChar(31)>>
EventNames == {<<"1">>, EscapedName}
EventNums == Nums \cup {-1}
OldWorkspaces ==
    {None} \cup {Some([num |-> num, name |-> name]) :
                    num \in {None} \cup {Some(n) : n \in EventNums},
                    name \in {None} \cup {Some(n) : n \in EventNames}}

\* What events.next() may return: a workspace event, an error, the end of
\* the stream; a stream that has failed or ended returns nothing else.
StreamItems(stream) ==
    {[kind |-> kind, old |-> None] : kind \in {"error", "end"}}
    \cup (IF stream = "up"
          THEN {[kind |-> "workspace", old |-> old] : old \in OldWorkspaces}
          ELSE {})

\* The event carries an old workspace with a number and a name.
HasOldNumName(event) ==
    /\ event.kind = "workspace"
    /\ IsSome(event.old)
    /\ IsSome(Unwrap(event.old).num)
    /\ IsSome(Unwrap(event.old).name)

\* Variant: an event without an old workspace removes the record.
monitor_handle_clearing(event, file) ==
    IF HasOldNumName(event)
    THEN file_write(file, tuple_to_string(Unwrap(Unwrap(event.old).name),
                                          Unwrap(Unwrap(event.old).num)))
    ELSE IF event.kind = "workspace" /\ ~IsSome(event.old) THEN Missing
    ELSE file

\* ws_monitor, the loop body after events.next() (lines 390-400): the file
\* after the item is handled, File::create of fs::write having been made.
monitor_handle(event, file) ==
    IF HasOldNumName(event)
    THEN file_write(file, tuple_to_string(Unwrap(Unwrap(event.old).name),
                                          Unwrap(Unwrap(event.old).num)))
    ELSE file

\* Nothing but the tool's input varies: an idle compositor, no files, no
\* invocation.
Idle ==
    /\ comp = InitComp([o \in OutputNames |-> 0])
    /\ abf = FALSE
    /\ mappingFile = Missing
    /\ previousFile = Missing
    /\ monitor = NotRunning
    /\ configFile = Missing
    /\ procs = <<>>

\* At start every output shows its own numbered workspace, or the first a
\* workspace without a number, and the first output is focused; two
\* invocations are about to be made.
Init ==
    /\ \E win \in [OutputNames -> 0..MaxWindows] :
          comp \in {InitComp(win), InitCompNamed(win)}
    /\ abf \in BOOLEAN
    /\ mappingFile \in MappingFiles
    /\ previousFile = Missing
    /\ last = NoRecord("init")
    /\ monitor = NotRunning
    /\ configFile = Missing
    /\ procs = <<Ready, Ready>>

(***************************************************************************)
(* The scripts of the tools: the steps main takes with what the process    *)
(* has received so far.  A reply not yet received is an empty list, a file *)
(* not yet read is NoFile; the steps up to the next query or read do not   *)
(* depend on it.                                                           *)
(***************************************************************************)
\* `ws focus [--no-auto-back-and-forth] [--number N] [NAME]`
FocusRun(p) == ws_focus(p.wss, Reply(p.outs, 1), p.file, p.args, p.order)

\* Variant: the invocation also stores the workspace that had the focus in
\* the previous-workspace file.
MoveRunSaving(p) ==
    LET f == focused_workspace(p.before.wss)
    IN  Then(ws_move(p.wss, p.file, p.args),
             IF IsSome(f)
             THEN Ok(<<Create("previous_file"),
                       Write("previous_file",
                             tuple_to_string(Chars(Unwrap(f).name), Unwrap(f).num))>>)
             ELSE Ok(<<>>))

\* `ws move [--no-auto-back-and-forth] (--number N | NAME)`
MoveRun(p) == ws_move(p.wss, p.file, p.args)

\* `ws map OUTPUT:SPEC...`: clap parses every token with map_validator, ws_map
\* enters them and saves.
\* The order in which the process's HashMap iterates once it is settled;
\* until then any order of the keys (no step taken before depends on it).
IterOrder(p, mapping) ==
    IF p.order \in KeyOrders(DOMAIN mapping) THEN p.order
    ELSE CHOOSE o \in KeyOrders(DOMAIN mapping) : TRUE

MapMapping(p) ==
    ws_map(Reply(p.outs, 1), p.file,
           [i \in DOMAIN p.args.maps |-> Unwrap(map_validator(p.args.maps[i]))])
MapRun(p) ==
    LET m == MapMapping(p)
    IN  Then(m.script, save_mapping(m.mapping, IterOrder(p, m.mapping)))

\* `workspaces-to-outputs MAPPING...`: make_config, save_config,
\* move_workspaces, which iterates over the HashMap save_config has written.
BulkConfig(p) == make_config(p.args.mapping, <<>>, p.outs)
BulkRun(p) ==
    LET config == BulkConfig(p)
        order  == IterOrder(p, config)
    IN  Then(Ok(make_config_queries(p.args.mapping)),
        Then(save_config(config, order),
             move_workspaces(config, p.wss, order, p.empty)))

\* `workspace number N [OUTPUT]` and `move_to_workspace number N [OUTPUT]`
LegacyRun(p) ==
    Then(Ok(initialize_reads(p.args, Reply(p.outs, 1))),
         legacy_main(p.op, p.args,
                     initialize_workspace(p.args, Reply(p.outs, 1), p.wss, p.file, p.order)))

Script(p) ==
    CASE p.op = "focus" -> FocusRun(p)
      [] p.op = "move"  -> MoveRun(p)
      [] p.op = "map"   -> MapRun(p)
      [] p.op = "bulk"  -> BulkRun(p)
      [] OTHER          -> LegacyRun(p)

\* The orders in which the process's HashMap may iterate, settled when the
\* map has been loaded or is about to be written, and its HashSet of outputs
\* left empty, settled when the workspaces are known; at any other step they
\* are what they are.
OrdersAt(p, s) ==
    CASE s.kind = "file" /\ p.io.pc = "closed" /\ p.op = "focus" ->
            HashOrders(p.file, p.args.number)
      [] s.kind = "file" /\ p.io.pc = "closed"
            /\ p.op \in {"workspace", "move_to_workspace"} ->
            KeyOrders(DOMAIN p.file.map)
      [] s.kind = "create" /\ p.op = "map" -> KeyOrders(DOMAIN MapMapping(p).mapping)
      [] s.kind = "create" /\ p.op = "bulk" -> KeyOrders(DOMAIN BulkConfig(p))
      [] OTHER -> {p.order}
EmptyAt(p, s) ==
    IF s.text = "get_workspaces" /\ p.op = "bulk"
    THEN KeyOrders(empty_outputs(p.wss, BulkConfig(p), IterOrder(p, BulkConfig(p))))
    ELSE {p.empty}

(***************************************************************************)
(* The state machine.  Run(i, p): process i, being p, takes the next step  *)
(* of its script; with its last step it ends and leaves its record.  The   *)
(* first step of an invocation is taken as it starts: to start a process   *)
(* and connect changes nothing another process could see.                  *)
(***************************************************************************)
Run(i, p) ==
    \E script \in {Script(p)} :
        /\ p.done < Len(script.steps)
        /\ \E s \in {script.steps[p.done + 1]} :
           \E x \in {Exchange([p |-> p, env |-> Env], s)} :
           \E order \in OrdersAt(x.p, s) :
           \E empty \in EmptyAt([x.p EXCEPT !.order = order], s) :
           \E q \in {[x.p EXCEPT !.order = order, !.empty = empty,
                                 !.overlapped = @ \/ \E j \in DOMAIN procs \ {i} :
                                                          procs[j].pc = "run"]} :
           \E after \in {Script(q)} :
           \E ended \in {q.result # "ok" \/ q.done >= Len(after.steps)} :
              /\ procs' = [j \in DOMAIN procs |->
                              IF j = i THEN (IF ended THEN Done ELSE q)
                              ELSE IF procs[j].pc = "run"
                              THEN [procs[j] EXCEPT !.overlapped = TRUE]
                              ELSE procs[j]]
              /\ last' = IF ended THEN Record(q, after) ELSE NoRecord("none")
              /\ comp' = x.env.comp
              /\ mappingFile' = x.env.mapping_file
              /\ configFile' = x.env.config_file
              /\ previousFile' = x.env.previous_file
              /\ UNCHANGED <<abf, monitor>>

\* Process i takes a step for the action of this name: when it is the first
\* process that is ready, it starts one of the invocations in fresh; when it
\* runs an invocation that action started, it goes on.
Step(i, action, fresh) ==
    \E p \in (CASE procs[i].pc = "ready" /\ (\A j \in 1..(i - 1) : procs[j].pc # "ready")
                     -> fresh
                [] procs[i].pc = "run" /\ procs[i].action = action -> {procs[i]}
                [] OTHER -> {}) :
        Run(i, p)

\* A process that has ended makes room for another invocation.
Exit ==
    /\ \E i \in DOMAIN procs :
          /\ procs[i].pc = "done"
          /\ procs' = [procs EXCEPT ![i] = Ready]
    /\ UNCHANGED <<comp, abf, mappingFile, previousFile, last, monitor, configFile>>

\* `ws focus ...`
Focus ==
    \E i \in DOMAIN procs :
        Step(i, "Focus", {NewProc("Focus", "focus", args, FALSE, 0) : args \in FocusArgs})

\* `ws --dry-run focus ...`
FocusDry ==
    \E i \in DOMAIN procs :
        Step(i, "FocusDry", {NewProc("FocusDry", "focus", args, TRUE, 0) : args \in FocusArgs})

\* `ws focus ...` while the transport fails at one IPC call (at most two
\* queries come before the commands, at most four commands follow).
FocusFail ==
    \E i \in DOMAIN procs :
        Step(i, "FocusFail",
             {NewProc("FocusFail", "focus", args, FALSE, failAt) :
                 args \in FocusArgs, failAt \in 1..(MaxFail + 2)})

\* `ws move ...`
Move ==
    \E i \in DOMAIN procs :
        Step(i, "Move", {NewProc("Move", "move", args, FALSE, 0) : args \in MoveArgs})

\* `ws --dry-run move ...`
MoveDry ==
    \E i \in DOMAIN procs :
        Step(i, "MoveDry", {NewProc("MoveDry", "move", args, TRUE, 0) : args \in MoveArgs})

\* The tokens given to `ws map`: outputs by name and by make, model and
\* serial, an output that is not connected, number sets that overlap.
MapTokens ==
    {<<"A", ":", "1", "-", "2">>,
     <<"m", " ", "x", " ", "a", ":", "2">>,
     <<"B", ":", "2">>,
     <<"B", ":", "3", ",", "3">>,
     <<"C", ":", "1">>}
MapArgs == UNION {[1..n -> MapTokens] : n \in 1..MaxTokens}

\* `ws map ...`
Map ==
    \E i \in DOMAIN procs :
        Step(i, "Map",
             {NewProc("Map", "map", [maps |-> tokens], FALSE, 0) : tokens \in MapArgs})

\* `ws --dry-run map ...`
MapDry ==
    \E i \in DOMAIN procs :
        Step(i, "MapDry",
             {NewProc("MapDry", "map", [maps |-> tokens], TRUE, 0) : tokens \in MapArgs})

\* `ws monitor`: subscribe; a failure to subscribe panics (expect).
MonitorStart ==
    /\ monitor.pc = "off"
    /\ \/ monitor' = [pc |-> "wait", stream |-> "up", event |-> NoEvent, noted |-> None]
       \/ monitor' = [pc |-> "panicked", stream |-> "closed", event |-> NoEvent,
                      noted |-> None]
    /\ last' = [op |-> "subscribe", args |-> NoEvent, result |-> None]
    /\ UNCHANGED <<comp, abf, mappingFile, previousFile, configFile, procs>>

\* events.next() returns; monitor.noted (and last.result) keeps the (name,
\* number) of the most recent event that had both.
MonitorNext ==
    /\ monitor.pc = "wait"
    /\ \E item \in StreamItems(monitor.stream) :
          LET noted == IF HasOldNumName(item)
                       THEN Some(<<Unwrap(Unwrap(item.old).name),
                                   Unwrap(Unwrap(item.old).num)>>)
                       ELSE monitor.noted
          IN  /\ monitor' = [pc |-> "handle",
                             stream |-> IF item.kind = "workspace"
                                        THEN monitor.stream ELSE "down",
                             event |-> item, noted |-> noted]
              /\ last' = [op |-> "event", args |-> item, result |-> noted]
    /\ UNCHANGED <<comp, abf, mappingFile, previousFile, configFile, procs>>

\* The loop body up to File::create of fs::write: an event that is not
\* recorded sends the loop back to events.next().
MonitorHandle ==
    /\ monitor.pc = "handle"
    /\ IF HasOldNumName(monitor.event)
       THEN /\ previousFile' = file_create(previousFile)
            /\ monitor' = [monitor EXCEPT !.pc = "write"]
       ELSE /\ previousFile' = monitor_handle(monitor.event, previousFile)
            /\ monitor' = [monitor EXCEPT !.pc = "wait"]
    /\ UNCHANGED <<comp, abf, mappingFile, last, configFile, procs>>

\* write_all of fs::write; the loop then comes back to events.next().
MonitorWrite ==
    /\ monitor.pc = "write"
    /\ previousFile' = monitor_handle(monitor.event, previousFile)
    /\ monitor' = [monitor EXCEPT !.pc = "wait"]
    /\ UNCHANGED <<comp, abf, mappingFile, last, configFile, procs>>

Monitor == MonitorStart \/ MonitorNext \/ MonitorHandle \/ MonitorWrite

\* The mapping strings given to workspaces-to-outputs.
BulkTokens ==
    {<<"A", ":", "1">>, <<"B", ":", "1">>, <<"A", ":", "2", "-", "1">>,
     <<"m", " ", "x", " ", "b", ":", "2">>, <<"B", ":", "-", "1">>}
BulkArgs == UNION {[1..n -> BulkTokens] : n \in 0..MaxTokens}

\* `workspaces-to-outputs MAPPING...`
Bulk ==
    \E i \in DOMAIN procs :
        Step(i, "Bulk",
             {NewProc("Bulk", "bulk", [mapping |-> mapping], FALSE, 0) :
                 mapping \in BulkArgs})

\* The same while the transport fails at one IPC call: a query (one
\* get_outputs for every mapping string with a colon, then get_workspaces),
\* which gives the empty list, or one of the first MaxFail commands; an
\* expect then panics.
BulkFail ==
    \E i \in DOMAIN procs :
        Step(i, "BulkFail",
             UNION {{NewProc("BulkFail", "bulk", [mapping |-> mapping], FALSE, failAt) :
                        failAt \in 1..(Len(make_config_queries(mapping)) + 1 + MaxFail)} :
                    mapping \in BulkArgs})

\* `workspace number N [OUTPUT]` and `move_to_workspace number N [OUTPUT]`
LegacyOutputs == {None, Some("B"), Some("C"), Some("m x a")}
LegacyArgs == [workspace : Nums, output : LegacyOutputs]
Legacy ==
    \E i \in DOMAIN procs :
        Step(i, "Legacy",
             {NewProc("Legacy", tool, cli, FALSE, 0) :
                 tool \in {"workspace", "move_to_workspace"}, cli \in LegacyArgs})

\* The same while the transport fails at one IPC call: at a query (at most
\* two), which gives the empty list, or at one of the first MaxFail
\* commands, where an expect panics.
LegacyFail ==
    \E i \in DOMAIN procs :
        Step(i, "LegacyFail",
             {NewProc("LegacyFail", tool, cli, FALSE, failAt) :
                 tool \in {"workspace", "move_to_workspace"}, cli \in LegacyArgs,
                 failAt \in 1..(MaxFail + 2)})

Next ==
    \/ Focus \/ Move \/ Map \/ Monitor \/ Bulk \/ BulkFail
    \/ FocusDry \/ MoveDry \/ MapDry \/ FocusFail \/ Legacy \/ LegacyFail \/ Exit

Spec == Init /\ [][Next]_vars

\* Invocations of one subcommand only.
FocusSpec == Init /\ [][Focus]_vars
MoveSpec == Init /\ [][Move]_vars

\* `ws map` reads the outputs only: it is followed from the start without
\* windows, by any mapping file.
MapInit ==
    /\ Init
    /\ comp = InitComp([o \in OutputNames |-> 0])
    /\ abf = FALSE
MapSpec == MapInit /\ [][Map]_vars

\* One Sway value used by an operation while the compositor goes on.
\* last.queried: the queries the step made; last.queries: all so far.
CacheOp(op, which, before, cache, queried, result) ==
    [op |-> op, which |-> which, before |-> before, cache |-> cache,
     queried |-> queried, queries |-> (IF op = "new" THEN 0 ELSE last.queries + queried),
     result |-> result]
CacheInit ==
    /\ Idle
    /\ last = CacheOp("new", "workspaces", EmptyCache, EmptyCache, 0, None)

CacheUpdate ==
    \E which \in {"workspaces", "outputs"} :
        LET u == cache_update(which, last.cache, comp)
        IN  /\ last.queries + u.queries <= MaxQueries
            /\ last' = CacheOp("update", which, last.cache, u.cache, u.queries, None)
            /\ UNCHANGED <<comp, abf, mappingFile, previousFile, monitor, configFile, procs>>

CacheGet ==
    \E which \in {"workspaces", "outputs"} :
        /\ last' = CacheOp("get", which, last.cache, last.cache, 0,
                           cache_get(which, last.cache))
        /\ UNCHANGED <<comp, abf, mappingFile, previousFile, monitor, configFile, procs>>

CacheReset ==
    \E which \in {"workspaces", "outputs"} :
        /\ last' = CacheOp("reset", which, last.cache, cache_reset(which, last.cache),
                           0, None)
        /\ UNCHANGED <<comp, abf, mappingFile, previousFile, monitor, configFile, procs>>

\* Meanwhile another client makes the compositor focus a workspace.
CompChange ==
    \E n \in Nums :
        /\ comp' = SwayWorkspaceNoAbf(comp, conn_workspace_num(n).steps[1].cmd)
        /\ comp' # comp
        /\ last' = CacheOp("change", last.which, last.cache, last.cache, 0, None)
        /\ UNCHANGED <<abf, mappingFile, previousFile, monitor, configFile, procs>>

CacheSpec == CacheInit /\ [][CacheUpdate \/ CacheGet \/ CacheReset \/ CompChange]_vars

\* The lookup alone: snapshots with equal numbers, with names that look like
\* numbers, with a workspace without a number.
LookupWorkspaces ==
    {[num |-> 1, name |-> "1"], [num |-> 1, name |-> "1:mail"],
     [num |-> -1, name |-> "mail"], [num |-> 2, name |-> "2"]}
LookupSnapshots == UNION {[1..n -> LookupWorkspaces] : n \in 0..MaxSnapshot}
LookupArgs ==
    [number : {None, Some(1), Some(2)}, name : {None, Some("mail"), Some("1")}]
LookupInit ==
    /\ Idle
    /\ \E wss \in LookupSnapshots : \E a \in LookupArgs :
          last = [op |-> "snapshot", wss |-> wss, args |-> a, result |-> None]
Lookup ==
    /\ last.op = "snapshot"
    /\ last' = [last EXCEPT !.op = "lookup",
                            !.result = workspace_by_num_or_name(last.wss, last.args.number,
                                                                last.args.name)]
    /\ UNCHANGED <<comp, abf, mappingFile, previousFile, monitor, configFile, procs>>
LookupSpec == LookupInit /\ [][Lookup]_vars

\* Focus over a failing transport.
FailMappingFiles ==
    {Missing}
    \cup Saved(MakeMapping([o \in OutputNames |-> Range(1, MaxNum)]))
    \cup Saved(MakeMapping([o \in OutputNames |->
            IF o = Outputs[1] THEN Range(1, 1) ELSE Range(2, MaxNum)]))
FailInit ==
    /\ Init
    /\ comp = InitComp([o \in OutputNames |-> 0])
    /\ abf = FALSE
    /\ mappingFile \in FailMappingFiles
FailSpec == FailInit /\ [][FocusFail]_vars

\* One invocation of ws, focus with a transport that may fail, in a session
\* in which the monitor is not running or is about to handle an event; the
\* previous-workspace file is missing or holds an earlier record.
OwnerEvent ==
    [kind |-> "workspace", old |-> Some([num |-> Some(1), name |-> Some(<<"1">>)])]
OwnerInit ==
    /\ comp = InitComp([o \in OutputNames |-> 0])
    /\ abf = FALSE
    /\ mappingFile \in FailMappingFiles
    /\ previousFile \in {Missing, TextFile(tuple_to_string(EscapedName, -1))}
    /\ monitor \in {NotRunning,
                    [pc |-> "handle", stream |-> "up", event |-> OwnerEvent,
                     noted |-> Some(<<<<"1">>, 1>>)]}
    /\ configFile = Missing
    /\ last = NoRecord("init")
    /\ procs = <<Ready>>
Once == last.op = "init"
OwnerNext ==
    \/ FocusFail
    \/ Move
    \/ Map
    \/ Once /\ MonitorStart
    \/ Once /\ MonitorNext
    \/ MonitorHandle
    \/ MonitorWrite
OwnerSpec == OwnerInit /\ [][OwnerNext]_vars

\* Invocations of the two older tools, with the config files
\* workspaces-to-outputs leaves (the keys in either order, one file from
\* when the output C was connected); the windows are on the focused
\* workspace.
LegacyConfigs ==
    {Missing, CutFile, NotUtf8File}
    \cup Saved(MakeMapping([o \in OutputNames |-> Range(1, MaxNum)]))
    \cup Saved(MakeMapping([o \in OutputNames |->
            IF o = Outputs[1] THEN <<>> ELSE Range(1, 1)]))
    \cup Saved(MakeMapping([o \in {Disconnected} |-> Range(1, 1)]))
LegacyStart ==
    /\ \E k \in 0..MaxWindows :
          LET win == [o \in OutputNames |-> IF o = Outputs[1] THEN k ELSE 0]
          IN  comp \in {InitComp(win), InitCompNamed(win)}
    /\ abf = FALSE
    /\ mappingFile = Missing
    /\ previousFile = Missing
    /\ monitor = NotRunning
    /\ configFile \in LegacyConfigs
    /\ last = NoRecord("init")
LegacyInit ==
    /\ LegacyStart
    /\ procs = <<Ready, Ready>>
LegacySpec == LegacyInit /\ [][Legacy]_vars

\* One invocation of an older tool over a failing transport.
LegacyFailInit ==
    /\ LegacyStart
    /\ procs = <<Ready>>
LegacyFailSpec == LegacyFailInit /\ [][LegacyFail]_vars

\* Focus while no workspace has the focus.
NoFocusInit ==
    /\ \E win \in [OutputNames -> 0..MaxWindows] :
          comp = [InitComp(win) EXCEPT !.focus = NoName]
    /\ abf \in BOOLEAN
    /\ mappingFile \in MappingFiles
    /\ previousFile = Missing
    /\ monitor = NotRunning
    /\ configFile = Missing
    /\ last = NoRecord("init")
    /\ procs = <<Ready>>
NoFocusSpec == NoFocusInit /\ [][Focus]_vars

\* The subcommands under --dry-run.  (ws_monitor never looks at the flag: a
\* monitor started with it runs as Monitor does.)
DrySpec == MapInit /\ [][FocusDry \/ MoveDry \/ MapDry]_vars

\* One invocation of workspaces-to-outputs, exchange by exchange, with and
\* without windows on the outputs.
BulkInit ==
    /\ \E win \in [OutputNames -> 0..MaxWindows] : comp \in {InitComp(win), InitCompNamed(win)}
    /\ abf = FALSE
    /\ mappingFile = Missing
    /\ previousFile = Missing
    /\ monitor = NotRunning
    /\ configFile = Missing
    /\ last = NoRecord("init")
    /\ procs = <<Ready>>
BulkSpec == BulkInit /\ [][Bulk]_vars

\* workspaces-to-outputs with a command that fails, from an idle compositor.
BulkFailInit ==
    /\ BulkInit
    /\ comp = InitComp([o \in OutputNames |-> 0])
BulkFailSpec == BulkFailInit /\ [][BulkFail]_vars

\* The monitor alone, and the monitor scheduled: the process is never
\* suspended for good.
MonitorInit ==
    /\ Idle
    /\ last = [op |-> "init", args |-> NoEvent, result |-> None]
MonitorSpec == MonitorInit /\ [][Monitor]_vars
MonitorLiveSpec ==
    /\ MonitorSpec
    /\ WF_vars(MonitorStart) /\ WF_vars(MonitorNext)
    /\ WF_vars(MonitorHandle) /\ WF_vars(MonitorWrite)

(***************************************************************************)
(* map_validator on its own: a token is handed to it and the result kept.  *)
(***************************************************************************)
NumTexts == {<<"1">>, <<"2">>, <<"1", "0">>}
\* The parts of a workspace list: a number, a range, and parts that are
\* neither (empty, a word, a range lacking an end, a range to a negative end).
PartTexts ==
    NumTexts
    \cup {a \o <<"-">> \o b : a \in NumTexts, b \in NumTexts}
    \cup {<<>>, <<"A">>, <<"-">>, <<"1", "-">>, <<"-", "2">>, <<"1", "-", "-", "2">>}
RECURSIVE Join(_)
Join(parts) ==
    IF Len(parts) <= 1 THEN (IF parts = <<>> THEN <<>> ELSE parts[1])
    ELSE parts[1] \o <<",">> \o Join(Tail(parts))
SpecTexts == {Join(parts) : parts \in UNION {[1..n -> PartTexts] : n \in 0..MaxParts}}
\* OUTPUT:SPEC tokens, also without an output and without the colon.
ValidatorTokens ==
    {o \o sep \o w : o \in {<<>>, <<"A">>}, sep \in {<<>>, <<":">>}, w \in SpecTexts}

ValidatorInit ==
    /\ Idle
    /\ \E token \in ValidatorTokens : last = [op |-> "token", args |-> token, result |-> None]

\* clap hands the token to map_validator.
Validate ==
    /\ last.op = "token"
    /\ last' = [op |-> "map_validator", args |-> last.args,
                result |-> map_validator(last.args)]
    /\ UNCHANGED <<comp, abf, mappingFile, previousFile, monitor, configFile, procs>>

ValidatorSpec == ValidatorInit /\ [][Validate]_vars

(***************************************************************************)
(* save_mapping and load_mapping on their own: a mapping in memory is      *)
(* written as text and the text is read back.                              *)
(***************************************************************************)
\* Keys: a plain name, and one made of characters that need escaping (quote,
\* backslash, line feed, U+0001).
JsonKeys == {<<"A">>, <<Quote, Backslash, ControlChar(10), ControlChar(1)>>}
JsonNumbers == {-1, 0, 12}
JsonVecs == UNION {[1..n -> JsonNumbers] : n \in 0..MaxVecLen}
JsonMappings == UNION {[K -> JsonVecs] : K \in SUBSET JsonKeys}

JsonInit ==
    /\ Idle
    /\ \E m \in JsonMappings : last = [op |-> "mapping", args |-> m, result |-> None]

\* save_mapping: the text that goes to the file.
JsonSave ==
    /\ last.op = "mapping"
    /\ \E order \in KeyOrders(DOMAIN last.args) :
          last' = [op |-> "saved", args |-> last.args,
                   result |-> Some(to_string(last.args, order))]
    /\ UNCHANGED <<comp, abf, mappingFile, previousFile, monitor, configFile, procs>>

\* load_mapping: the mapping read from that text.
JsonLoad ==
    /\ last.op = "saved"
    /\ last' = [op |-> "loaded", args |-> last.args,
                result |-> from_str(Unwrap(last.result))]
    /\ UNCHANGED <<comp, abf, mappingFile, previousFile, monitor, configFile, procs>>

JsonSpec == JsonInit /\ [][JsonSave \/ JsonLoad]_vars

(***************************************************************************)
(* One process overwrites a file with fs::write while another reads it     *)
(* with fs::read_to_string, system call by system call; the files are the  *)
(* mapping file (save_mapping, load_mapping) and the previous-workspace    *)
(* file (ws_monitor, get_previous_workspace).  last holds the writer's     *)
(* place (pc), the reader's place (io) and the text the reader got (seen). *)
(***************************************************************************)
\* The texts save_mapping writes for `ws map A:1-k` and `ws map A:1 B:2-k`
\* (the keys in either order), and the texts the monitor writes.
SaveTexts(which) ==
    IF which = "mapping"
    THEN LET a == <<Outputs[1]>>
             b == <<Outputs[2]>>
         IN  {to_string([o \in {a} |-> Range(1, k)], <<a>>) : k \in 1..MaxNum}
             \cup {to_string([o \in {a, b} |-> IF o = a THEN Range(1, 1) ELSE Range(2, k)],
                             order) : k \in 2..MaxNum, order \in {<<a, b>>, <<b, a>>}}
    ELSE {tuple_to_string(<<ToString(n)>>, n) : n \in Nums}

FileOf(which) == IF which = "mapping" THEN mappingFile ELSE previousFile

SaveInit ==
    /\ procs = <<>>
    /\ comp = InitComp([o \in OutputNames |-> 0])
    /\ abf = FALSE
    /\ monitor = NotRunning
    /\ configFile = Missing
    /\ \E which \in {"mapping", "previous"} :
       \E old \in SaveTexts(which) : \E new \in SaveTexts(which) \ {old} :
          /\ mappingFile = IF which = "mapping" THEN TextFile(old) ELSE Missing
          /\ previousFile = IF which = "previous" THEN TextFile(old) ELSE Missing
          /\ last = [op |-> "save", which |-> which, old |-> old, data |-> new,
                     pc |-> "start", io |-> Closed, seen |-> None]

\* The file `which` becomes `file`; the other one stays.
SetFile(which, file) ==
    /\ mappingFile' = IF which = "mapping" THEN file ELSE mappingFile
    /\ previousFile' = IF which = "previous" THEN file ELSE previousFile

\* fs::write, File::create: the file is opened for writing and truncated.
SaveCreate ==
    /\ last.pc = "start"
    /\ SetFile(last.which, file_create(FileOf(last.which)))
    /\ last' = [last EXCEPT !.pc = "write"]
    /\ UNCHANGED <<comp, abf, monitor, configFile, procs>>

\* fs::write, write_all: the write call puts out the data.
SaveWrite ==
    /\ last.pc = "write"
    /\ SetFile(last.which, file_write(FileOf(last.which), last.data))
    /\ last' = [last EXCEPT !.pc = "done"]
    /\ UNCHANGED <<comp, abf, monitor, configFile, procs>>

\* fs::read_to_string in another process, File::open.
LoadOpen ==
    /\ last.op = "save"
    /\ last.seen = None
    /\ last.io.pc = "closed"
    /\ last' = [last EXCEPT !.io = file_open(FileOf(last.which))]
    /\ UNCHANGED <<comp, abf, mappingFile, previousFile, monitor, configFile, procs>>

\* fs::read_to_string, metadata.
LoadMetadata ==
    /\ last.op = "save"
    /\ last.io.pc = "opened"
    /\ last' = [last EXCEPT !.io = file_metadata(FileOf(last.which), @)]
    /\ UNCHANGED <<comp, abf, mappingFile, previousFile, monitor, configFile, procs>>

\* fs::read_to_string, one read call; the one that returns nothing ends the
\* read, and the reader has the text.
LoadRead ==
    /\ last.op = "save"
    /\ last.io.pc = "reading"
    /\ \E io \in {file_read(FileOf(last.which), last.io)} :
          last' = IF io.pc # "eof" THEN [last EXCEPT !.io = io]
                  ELSE [last EXCEPT !.io = Closed, !.seen = Some(last.io.buf)]
    /\ UNCHANGED <<comp, abf, mappingFile, previousFile, monitor, configFile, procs>>

SaveSpec ==
    SaveInit /\ [][SaveCreate \/ SaveWrite \/ LoadOpen \/ LoadMetadata \/ LoadRead]_vars

(***************************************************************************)
(* Properties.  `last` describes the invocation that has just ended:       *)
(* last.snap is what it received, last.pre what its snapshot of the        *)
(* workspaces showed, comp what the compositor holds now.  last.alone: no  *)
(* other invocation was running at any of its steps (concurrent            *)
(* invocations are not a supported scenario).                              *)
(***************************************************************************)
\* The payload a plain focus sends for the requested number and/or name.
FocusPayload(a) ==
    IF IsSome(a.number)
    THEN "workspace number " \o ToString(Unwrap(a.number))
             \o (IF IsSome(a.name) THEN ":" \o Unwrap(a.name) ELSE "")
    ELSE "workspace " \o Unwrap(a.name)

IsFocusOutput(text) ==
    \E i \in DOMAIN KnownOutputs : text = "focus output " \o KnownOutputs[i]

\* The latest invocation was Focus with a focused workspace ...
FocusRan == last.op = "focus" /\ IsSome(last.pre.focused)
\* ... for a target that existed / did not exist when it started,
TargetExisted == IsSome(last.pre.target)
\* ... and that target was the focused workspace itself.
TargetWasFocused == TargetExisted /\ last.pre.target = last.pre.focused
\* The outputs claiming the requested number in the mapping file it read.
LastClaimers == Claimers(last.snap.file.map, Unwrap(last.args.number))
\* Focus asked for a number no workspace had, with a mapping to consult.
NewNumbered ==
    /\ FocusRan /\ IsSome(last.args.number) /\ ~TargetExisted
    /\ last.snap.file.kind = "json"
    /\ last.snap.outs # <<>>
\* The output that was focused, as the reply to get_outputs had it.
FocusedOutputSeen == Unwrap(focused_output(Reply(last.snap.outs, 1))).name
\* The focused workspace now carries the requested number.
TargetFocusedNow == FocusedWs(comp).num = Unwrap(last.args.number)

\* What load_mapping would read from the mapping file now.
OnDisk == Load(mappingFile)

\* Every numbered workspace whose number an output claims is on that output.
MappingConsistent == Consistent(comp, OnDisk)

\* Start: a mapping that claims some number, and a compositor consistent
\* with it.
InitConsistent ==
    /\ Init
    /\ OnDisk.kind = "json" /\ DOMAIN OnDisk.map # {}
    /\ MappingConsistent

ConsistentSpec == InitConsistent /\ [][Focus \/ Move]_vars

\* C1: every Focus and every Move that started in a state consistent with
\* the mapping and ran alone ends in a state consistent with the mapping.
C1_ConsistencyKept ==
    (last.op \in {"focus", "move"} /\ last.pre.consistent /\ last.alone)
    => MappingConsistent

\* Focus has ended without error, run alone, for a numbered target that
\* did not exist.
NewNumberedDone ==
    /\ FocusRan /\ last.result = "ok" /\ IsSome(last.args.number) /\ ~TargetExisted
    /\ last.alone
\* A workspace with the requested number exists, is focused, and is on an
\* output that claims the number if any output does.
TargetPlaced ==
    \E w \in comp.ws :
        /\ w.num = Unwrap(last.args.number)
        /\ w.name = comp.focus
        /\ LastClaimers # {} => w.output \in LastClaimers

\* C2: after a successful Focus, run alone, for a numbered target that did
\* not exist, a workspace with that number exists, is focused, and is on an
\* output that claims the number if any output does.
C2_FocusPlacement == NewNumberedDone => TargetPlaced

\* The same holds whenever every output that claims the number is
\* connected: sway then carries out the focus-output command.
FocusPlacementConnected ==
    (NewNumberedDone /\ LastClaimers \subseteq OutputNames) => TargetPlaced

\* The four payloads of the sequence towards output o.
FourCommands(o) ==
    <<"focus output " \o o, FocusPayload(last.args),
      "workspace " \o Unwrap(last.pre.focused).name, FocusPayload(last.args)>>

\* C3 as stated: Focus for a numbered target that did not exist, claimed by
\* an output O other than the focused one, sends exactly the four commands
\* (focus output O, focus target, focus original by name, focus target) and,
\* run alone, ends with the target focused.
C3_AsStated ==
    \A o \in DOMAIN last.snap.file.map :
        (NewNumbered /\ o \in LastClaimers /\ o # FocusedOutputSeen)
        => /\ last.result = "ok"
           /\ last.cmds = FourCommands(o)
           /\ last.alone => TargetFocusedNow

\* C3: the same when O is the only output that claims the number.
C3_FourCommands ==
    \A o \in DOMAIN last.snap.file.map :
        (NewNumbered /\ LastClaimers = {o} /\ o # FocusedOutputSeen)
        => /\ last.result = "ok"
           /\ last.cmds = FourCommands(o)
           /\ last.alone => TargetFocusedNow

C3_Witness ==
    /\ NewNumbered /\ Cardinality(LastClaimers) = 1
    /\ FocusedOutputSeen \notin LastClaimers
    /\ Len(last.cmds) = 4
    /\ last.alone
    /\ TargetFocusedNow

\* C4: Focus with --no-auto-back-and-forth for a target that is the focused
\* workspace sends no command and changes neither the compositor nor the
\* two files.
C4_FocusNoOp ==
    [][(/\ last'.op = "focus"
        /\ last'.args.no_auto_back_and_forth
        /\ IsSome(last'.pre.target)
        /\ last'.pre.target = last'.pre.focused)
       => /\ last'.cmds = <<>>
          /\ last'.result = "ok"
          /\ UNCHANGED <<comp, mappingFile, previousFile>>]_vars

C4_Witness ==
    /\ FocusRan /\ TargetWasFocused /\ last.args.no_auto_back_and_forth
    /\ last.cmds = <<>> /\ last.result = "ok"

\* C5: Focus for a target that exists, unless it is focused and
\* --no-auto-back-and-forth is given, sends exactly one plain focus command
\* built from the number and/or name, and does not read the mapping.
C5_ExistingTarget ==
    (FocusRan /\ TargetExisted
        /\ ~(TargetWasFocused /\ last.args.no_auto_back_and_forth))
    => /\ last.cmds = <<FocusPayload(last.args)>>
       /\ ~Contains(last.reads, "mapping_file")
       /\ last.result = "ok"

C5_Witness ==
    /\ FocusRan /\ TargetExisted /\ ~TargetWasFocused
    /\ IsSome(last.args.number) /\ IsSome(last.args.name)
    /\ Len(last.cmds) = 1

\* C6: Focus for a target given by name only that did not exist sends
\* exactly one workspace-by-name command and neither loads the mapping nor
\* queries the outputs.
C6_NameOnly ==
    (FocusRan /\ ~IsSome(last.args.number) /\ ~TargetExisted)
    => /\ last.cmds = <<"workspace " \o Unwrap(last.args.name)>>
       /\ last.reads = <<"get_workspaces">>
       /\ last.result = "ok"

C6_Witness ==
    /\ FocusRan /\ ~IsSome(last.args.number) /\ ~TargetExisted
    /\ Len(last.cmds) = 1
    /\ comp.focus = Unwrap(last.args.name)

\* C7 as stated: Focus for a numbered target that did not exist sends
\* exactly one plain focus command when no output claims the number or the
\* focused output claims it.
C7_AsStated ==
    (NewNumbered /\ (LastClaimers = {} \/ FocusedOutputSeen \in LastClaimers))
    => /\ last.cmds = <<FocusPayload(last.args)>>
       /\ last.result = "ok"

\* C7: the same when no output claims the number or the focused output is
\* the only one that does.
C7_OnePlainCommand ==
    (NewNumbered /\ LastClaimers \subseteq {FocusedOutputSeen})
    => /\ last.cmds = <<FocusPayload(last.args)>>
       /\ last.result = "ok"

C7_Witness ==
    /\ NewNumbered /\ LastClaimers = {FocusedOutputSeen}
    /\ last.cmds = <<FocusPayload(last.args)>>
    /\ TargetFocusedNow

\* Focus run once more, now, with the arguments of the latest invocation.
SecondRun(order) ==
    Exec([p |-> NewProc("Focus", "focus", last.args, FALSE, 0), env |-> Env],
         ws_focus(GetWorkspaces(comp), GetOutputs(comp), OnDisk,
                  last.args, order).steps).p

\* The target of the latest invocation exists now.
TargetExistsNow ==
    IsSome(workspace_by_num_or_name(GetWorkspaces(comp), last.args.number, last.args.name))

\* C8: when Focus has succeeded and its target exists, Focus run again for
\* the same target sends no focus-output command and at most one command.
C8_SecondRun ==
    (FocusRan /\ last.result = "ok" /\ TargetExistsNow)
    => \A order \in HashOrders(OnDisk, last.args.number) :
          /\ Len(SecondRun(order).cmds) <= 1
          /\ \A i \in DOMAIN SecondRun(order).cmds : ~IsFocusOutput(SecondRun(order).cmds[i])

C8_Witness ==
    /\ FocusRan /\ last.result = "ok" /\ TargetExistsNow
    /\ Len(last.cmds) = 4
    /\ Len(SecondRun(Keys(OnDisk.map)).cmds) = 1

\* C9: after the sequence that starts with a focus-output command, run
\* alone, the compositor's previous workspace is the one focused before the
\* invocation.
C9_BackAndForthTarget ==
    (/\ FocusRan /\ last.result = "ok" /\ last.cmds # <<>> /\ IsFocusOutput(last.cmds[1])
     /\ last.alone)
    => comp.prev = Unwrap(last.pre.focused).name

C9_Witness ==
    /\ FocusRan /\ last.result = "ok" /\ Len(last.cmds) = 4
    /\ last.alone
    /\ IsFocusOutput(last.cmds[1])
    /\ comp.prev = Unwrap(last.pre.focused).name
    /\ comp.prev # comp.focus

\* C10: Move with --no-auto-back-and-forth for a target that is the focused
\* workspace sends no command.
C10_MoveNoOp ==
    (/\ last.op = "move"
     /\ last.args.no_auto_back_and_forth
     /\ IsSome(last.pre.target)
     /\ last.pre.target = last.pre.focused)
    => last.cmds = <<>>

\* The payload a move-container command carries for the requested target.
MovePayload(a) ==
    IF IsSome(a.number)
    THEN "move to workspace number " \o ToString(Unwrap(a.number))
    ELSE "move to workspace " \o Unwrap(a.name)

\* Workspace w is what the arguments a name.
Names(a, w) ==
    \/ IsSome(a.number) /\ w.num = Unwrap(a.number)
    \/ IsSome(a.name) /\ w.name = Unwrap(a.name)

\* C11: Move of the only window of the focused workspace to a numbered
\* workspace that does not exist, whose number is claimed by an output other
\* than the focused one (where the new workspace lands), sends after the
\* move-container command at least one command that moves the workspace to
\* a claiming output.
C11_MoveRelocates ==
    [][(/\ last'.op = "move"
        /\ IsSome(last'.args.number)
        /\ ~\E w \in comp.ws : Names(last'.args, w)
        /\ FocusedWs(comp).windows = 1
        /\ OnDisk.kind = "json"
        /\ Claimers(OnDisk.map, Unwrap(last'.args.number)) # {}
        /\ FocusedOutputName(comp) \notin Claimers(OnDisk.map, Unwrap(last'.args.number)))
       => \E i \in 2..Len(last'.cmds) :
             \E o \in Claimers(OnDisk.map, Unwrap(last'.args.number)) :
                last'.cmds[i] = "move workspace to output " \o o]_vars

\* C12: Move to a workspace that already holds a window sends the
\* move-container command and nothing else, and no workspace changes its
\* output.
C12_MoveNoRelocation ==
    [][(/\ last'.op = "move"
        /\ \E w \in comp.ws :
              Names(last'.args, w) /\ w.windows >= 1 /\ w.name # comp.focus)
       => /\ last'.cmds = <<MovePayload(last'.args)>>
          /\ \A w \in comp.ws : \A v \in comp'.ws :
                w.name = v.name => w.output = v.output]_vars

C12_Witness ==
    /\ last.op = "move" /\ last.result = "ok"
    /\ Len(last.cmds) = 1
    /\ \E w \in comp.ws :
          Names(last.args, w) /\ w.windows >= 2 /\ w.name # comp.focus

\* The numbers one part of a workspace list stands for: the number itself,
\* or everything between the two ends of a range, whichever end comes first.
PartNumbers(part) ==
    IF HasChar(part, "-")
    THEN LET a == Unwrap(parse_i32(Unwrap(split_once(part, "-"))[1]))
             b == Unwrap(parse_i32(Unwrap(split_once(part, "-"))[2]))
         IN  {n \in -99..99 : (a <= n /\ n <= b) \/ (b <= n /\ n <= a)}
    ELSE {Unwrap(parse_i32(part))}

\* The numbers a token's workspace list stands for.
TokenNumbers(token) ==
    LET parts == split(Unwrap(split_once(token, ":"))[2], ",")
    IN  UNION {PartNumbers(parts[i]) : i \in DOMAIN parts}

\* C13: the sequence map_validator returns for an accepted token is strictly
\* ascending and holds exactly the numbers listed in the token and the
\* numbers of its ranges a-b, where a-b with a > b stands for b-a.
C13_ValidatorNormalises ==
    (last.op = "map_validator" /\ IsSome(last.result))
    => LET v == Unwrap(last.result).workspaces
       IN  /\ \A i \in 1..(Len(v) - 1) : v[i] < v[i + 1]
           /\ {v[i] : i \in DOMAIN v} = TokenNumbers(last.args)

C13_Witness ==
    /\ last.op = "map_validator" /\ IsSome(last.result)
    /\ last.args = <<"A", ":", "1", "0", "-", "2", ",", "1", "0">>
    /\ Len(Unwrap(last.result).workspaces) = 9

\* C16: a mapping saved and then loaded comes back with the same keys and,
\* for each key, the same number sequence.
C16_RoundTrip ==
    last.op = "loaded"
    => /\ IsSome(last.result)
       /\ DOMAIN Unwrap(last.result) = DOMAIN last.args
       /\ \A k \in DOMAIN last.args : Unwrap(last.result)[k] = last.args[k]

C16_Witness ==
    /\ last.op = "loaded" /\ IsSome(last.result)
    /\ DOMAIN last.args = JsonKeys
    /\ \A k \in JsonKeys : Len(Unwrap(last.result)[k]) = 2

\* The output a token names, by name or by make, model and serial: a set of
\* at most one connected output.
TokenOutput(token) == Unwrap(map_validator(token)).output
TokenWorkspaces(token) == Unwrap(map_validator(token)).workspaces
Resolved(token) ==
    {o \in OutputNames : \/ TokenOutput(token) = o
                         \/ TokenOutput(token) = "m x " \o OutputSerial(o)}
MapTokensFor(o) == {i \in DOMAIN last.args.maps : o \in Resolved(last.args.maps[i])}
LastTokenFor(o) == CHOOSE i \in MapTokensFor(o) : \A j \in MapTokensFor(o) : j <= i

\* C14: when two tokens of one map invocation resolve to the same output, by
\* name or by make, model and serial, the entry stored for that output is
\* exactly the number set of the later token (the file is that of the single
\* writer: no other invocation was running meanwhile).
C14_LaterTokenWins ==
    (last.op = "map" /\ last.alone) =>
        \A o \in OutputNames :
            Cardinality(MapTokensFor(o)) >= 2 =>
                /\ OnDisk.kind = "json"
                /\ o \in DOMAIN OnDisk.map
                /\ OnDisk.map[o] = TokenWorkspaces(last.args.maps[LastTokenFor(o)])

C14_Witness ==
    /\ last.op = "map" /\ last.alone
    /\ last.args.maps = <<<<"A", ":", "1", "-", "2">>, <<"m", " ", "x", " ", "a", ":", "2">>>>
    /\ OnDisk = Json([o \in {"A"} |-> <<2>>])

\* C15: a token whose output matches no connected output is skipped, without
\* an error and without an entry; the other tokens are applied and the
\* mapping is persisted (when no other invocation was running meanwhile, the
\* file holds it).
C15_UnknownOutputSkipped ==
    (last.op = "map" /\ \E i \in DOMAIN last.args.maps : Resolved(last.args.maps[i]) = {}) =>
        /\ last.result = "ok"
        /\ last.alone =>
              /\ OnDisk.kind = "json"
              /\ DOMAIN OnDisk.map = {o \in OutputNames : MapTokensFor(o) # {}}
              /\ \A o \in DOMAIN OnDisk.map :
                    OnDisk.map[o] = TokenWorkspaces(last.args.maps[LastTokenFor(o)])

C15_Witness ==
    /\ last.op = "map" /\ last.alone
    /\ last.args.maps = <<<<"C", ":", "1">>, <<"B", ":", "2">>>>
    /\ OnDisk = Json([o \in {"B"} |-> <<2>>])

\* Some number is listed under two outputs.
Overlapping(mapping) ==
    \E o1, o2 \in DOMAIN mapping :
        o1 # o2 /\ \E i \in DOMAIN mapping[o1] : Contains(mapping[o2], mapping[o1][i])

\* C17 as stated: in the mapping persisted by map invocations every number
\* is listed under at most one output.
C17_AsStated ==
    last.op = "map" => ~Overlapping(OnDisk.map)

\* The tokens that make the entries of different outputs list no number
\* twice.
DisjointTokens ==
    \A o1, o2 \in OutputNames :
        (o1 # o2 /\ MapTokensFor(o1) # {} /\ MapTokensFor(o2) # {}) =>
            LET w1 == TokenWorkspaces(last.args.maps[LastTokenFor(o1)])
                w2 == TokenWorkspaces(last.args.maps[LastTokenFor(o2)])
            IN  \A i \in DOMAIN w1 : ~Contains(w2, w1[i])

\* C17: in the mapping persisted by a map invocation every number is listed
\* under at most one output, provided the tokens that make the entries of
\* different outputs have no number in common; what the file held before
\* does not matter.
C17_DisjointTokens ==
    (last.op = "map" /\ DisjointTokens) => ~Overlapping(OnDisk.map)

C17_Witness ==
    /\ last.op = "map"
    /\ DisjointTokens
    /\ last.pre.file.kind = "json" /\ Overlapping(last.pre.file.map)
    /\ Cardinality(DOMAIN OnDisk.map) = 2
    /\ ~Overlapping(OnDisk.map)

\* C18: whenever the monitor waits for the next event, the previous-workspace
\* file holds the (name, number) of the old workspace of the most recent
\* event that had an old workspace with both, and is as it was at the start
\* when there has been none: other events leave the file as it is.
C18_PreviousRecorded ==
    (monitor.pc = "wait" /\ last.op = "event") =>
        IF IsSome(last.result)
        THEN get_previous_workspace(previousFile) = last.result
        ELSE previousFile = Missing

\* An event without a name has been handled after one that was recorded.
C18_Witness ==
    /\ monitor.pc = "wait"
    /\ monitor.event.kind = "workspace"
    /\ IsSome(monitor.event.old)
    /\ ~IsSome(Unwrap(monitor.event.old).name)
    /\ last.result = Some(<<EscapedName, -1>>)
    /\ get_previous_workspace(previousFile) = last.result

\* C19: once the event stream has failed or ended, the monitor terminates.
C19_FailureIsFatal ==
    (monitor.stream = "down") ~> (monitor.pc = "panicked")

\* The mapping the last bulk run declared, from the replies it received, and
\* the numbers of its correction and fill commands.
LastConfig == make_config(last.args.mapping, <<>>, last.snap.outs)
LastCorrections == Len(bulk_corrections(last.snap.wss, LastConfig, last.snap.order))
LastFills == Len(bulk_fill(LastConfig, last.snap.empty))
\* The outputs to which the corrections of the last run move workspace num.
MovesOf(num) ==
    {o \in OutputNames :
        \E i \in 1..LastCorrections : last.cmds[i] = select_and_move(num, o).text}
\* A bulk run that went through alone.
BulkRan == last.op = "bulk" /\ last.result = "ok" /\ last.alone

\* C20: bulk reassignment sends a select-and-move command for a workspace of
\* the snapshot exactly when the output it is on is not among the outputs
\* that claim its number in the declared mapping, and then only to outputs
\* that claim it; a workspace on a claiming output, or claimed by none, gets
\* no command.
C20_MovesExactlyMisplaced ==
    BulkRan =>
        \A i \in DOMAIN last.snap.wss :
            LET ws == last.snap.wss[i]
                cl == Claimers(LastConfig, ws.num)
            IN  /\ (MovesOf(ws.num) # {}) <=> (cl # {} /\ ws.output \notin cl)
                /\ MovesOf(ws.num) \subseteq cl

\* The i-th command of the fill pass of the last run.
FillCmd(i) == last.cmds[LastCorrections + i]
\* The outputs of the declared mapping no workspace of the snapshot is
\* claimed by, and the lowest number an output declares.
Unserved(mapping, wss) ==
    {o \in DOMAIN mapping : \A i \in DOMAIN wss : ~Contains(mapping[o], wss[i].num)}
Lowest(v) == CHOOSE n \in {v[i] : i \in DOMAIN v} : \A i \in DOMAIN v : n <= v[i]

\* C21: the fill pass sends, for every output of the mapping that claims no
\* workspace of the snapshot (and declares some number), exactly one command,
\* which selects the lowest number the output declares and moves it there;
\* an output that claims a workspace of the snapshot gets no fill command.
C21_FillPass ==
    BulkRan =>
        /\ \A o \in Unserved(LastConfig, last.snap.wss) :
              /\ Cardinality({i \in 1..LastFills :
                     \E n \in Nums : FillCmd(i) = select_and_move(n, o).text}) = 1
              /\ \E i \in 1..LastFills :
                     FillCmd(i) = select_and_move(Lowest(LastConfig[o]), o).text
        /\ \A o \in DOMAIN LastConfig \ Unserved(LastConfig, last.snap.wss) :
              \A i \in 1..LastFills : \A n \in Nums :
                  FillCmd(i) # select_and_move(n, o).text

\* The workspace that was focused when the last bulk run took its snapshot.
FocusedAtStart == focused_workspace(last.snap.wss)

\* C22: the commands of a bulk run are the corrections (for workspaces of the
\* snapshot, to outputs that claim them and are not theirs), then the fill
\* commands, then the focus restoration; when a workspace was focused at the
\* start, the last command focuses it and it is the focused workspace at the
\* end.
C22_OrderAndFocus ==
    BulkRan =>
        /\ \A i \in 1..LastCorrections :
              \E j \in DOMAIN last.snap.wss : \E o \in DOMAIN LastConfig :
                  /\ last.cmds[i] = select_and_move(last.snap.wss[j].num, o).text
                  /\ Contains(LastConfig[o], last.snap.wss[j].num)
                  /\ last.snap.wss[j].output # o
        /\ \A i \in 1..LastFills :
              \E o \in DOMAIN LastConfig :
                  FillCmd(i) = select_and_move(LastConfig[o][1], o).text
        /\ IsSome(FocusedAtStart) =>
              /\ Len(last.cmds) = LastCorrections + LastFills + 1
              /\ last.cmds[Len(last.cmds)] = bulk_restore(last.snap.wss)[1].text
              /\ comp.focus = Unwrap(FocusedAtStart).name

\* C23: when a correction or fill command of a bulk run fails, it is the
\* last command of the run.
C23_FailureAborts ==
    (last.op = "bulk" /\ last.failed > 0
        /\ last.failed <= LastCorrections + LastFills) =>
        Len(last.cmds) = last.failed

\* Every invocation that is running was started with --dry-run.
DryOnly == \A i \in DOMAIN procs : procs[i].pc = "run" => procs[i].dry

\* C24: no step of a subcommand run with --dry-run changes the compositor,
\* the mapping file or the previous-workspace file, and the subcommand still
\* makes its queries (focus the workspaces, map the outputs).
C24_DryRunNoEffects ==
    [][(DryOnly' /\ (last'.op = "none" \/ last'.dry)) =>
          /\ UNCHANGED <<comp, mappingFile, previousFile>>
          /\ last'.op = "focus" => last'.reads[1] = "get_workspaces"
          /\ last'.op = "map" => last'.reads = <<"get_outputs">>]_vars

\* C25: Focus on a snapshot without a focused workspace fails with
\* NoFocusedWorkspace and sends no command, whether or not the target exists.
C25_NoFocusedWorkspace ==
    (last.op = "focus" /\ ~IsSome(last.pre.focused)) =>
        /\ last.result = "NoFocusedWorkspace"
        /\ last.cmds = <<>>
        /\ last.reads = <<"get_workspaces">>

C25_Witness ==
    /\ last.op = "focus"
    /\ ~IsSome(last.pre.focused)
    /\ IsSome(last.pre.target)
    /\ last.result = "NoFocusedWorkspace"

\* C26 as stated: an access to workspaces() (outputs()) gives the list, the
\* first one by fetching it.
C26_AsStated ==
    last.op = "get" => IsSome(last.result)

\* C26: update_workspaces (update_outputs) fetches the list from the
\* compositor, with one query, when none is cached, and otherwise makes no
\* query and keeps the cached list, whatever the compositor has become;
\* workspaces() (outputs()) returns what is cached, nothing before the first
\* update and after a reset, and never queries; a reset empties the cache,
\* so that the next update fetches.
C26_SnapshotCache ==
    /\ last.op = "update" =>
          IF IsSome(last.before[last.which])
          THEN last.cache = last.before /\ last.queried = 0
          ELSE /\ last.cache = [last.before EXCEPT ![last.which] = Some(Fetch(last.which, comp))]
               /\ last.queried = 1
    /\ last.op = "get" =>
          /\ last.result = last.cache[last.which]
          /\ last.cache = last.before
          /\ last.queried = 0
    /\ last.op = "reset" =>
          /\ ~IsSome(last.cache[last.which])
          /\ \A w \in {"workspaces", "outputs"} \ {last.which} : last.cache[w] = last.before[w]

\* A later update has kept a list the compositor no longer has.
C26_Witness ==
    /\ last.op = "update"
    /\ IsSome(last.before[last.which])
    /\ last.cache[last.which] # Some(Fetch(last.which, comp))
    /\ last.queries = 1

\* The i-th workspace of the snapshot has the requested name or number.
Matches(i) ==
    \/ IsSome(last.args.name) /\ last.wss[i].name = Unwrap(last.args.name)
    \/ IsSome(last.args.number) /\ last.wss[i].num = Unwrap(last.args.number)

\* C27: the lookup gives the first workspace of the snapshot that has the
\* requested name or the requested number, and none when there is no such
\* workspace.
C27_Lookup ==
    last.op = "lookup" =>
        IF \A i \in DOMAIN last.wss : ~Matches(i)
        THEN last.result = None
        ELSE \E i \in DOMAIN last.wss :
                /\ Matches(i)
                /\ \A j \in 1..(i - 1) : ~Matches(j)
                /\ last.result = Some(last.wss[i])

\* A workspace with the number comes before one with the name.
C27_Witness ==
    /\ last.op = "lookup"
    /\ last.args = [number |-> Some(1), name |-> Some("mail")]
    /\ Len(last.wss) >= 2
    /\ last.wss[1].num = 1
    /\ last.wss[2].name = "mail"
    /\ last.result = Some(last.wss[1])

\* C28: when the k-th command of a Focus fails in the transport, Focus
\* returns the transport error and has issued exactly the first k commands
\* of its sequence: the failed one once, none after it.
C28_NoRetryNoContinuation ==
    (last.op = "focus" /\ last.failed > 0 /\ last.failed <= Len(last.planned)) =>
        /\ last.result = "Sway"
        /\ last.cmds = SubSeq(last.planned, 1, last.failed)

\* The second of four commands failed.
C28_Witness ==
    /\ last.op = "focus"
    /\ last.failed = 2
    /\ Len(last.planned) = 4
    /\ Len(last.cmds) = 2
    /\ last.result = "Sway"

\* C29: the mapping a map invocation persists, no other invocation running
\* meanwhile, has an entry for exactly the outputs its own tokens resolve to,
\* each with the number set of the last such token; nothing of what the file
\* held before is carried over.
C29_NoMerge ==
    (last.op = "map" /\ last.alone) =>
        /\ OnDisk.kind = "json"
        /\ DOMAIN OnDisk.map = {o \in OutputNames : MapTokensFor(o) # {}}
        /\ \A o \in DOMAIN OnDisk.map :
              OnDisk.map[o] = TokenWorkspaces(last.args.maps[LastTokenFor(o)])

\* The file had an entry for an output that no token of this invocation
\* names, and the invocation stored an entry for another output.
C29_Witness ==
    /\ last.op = "map" /\ last.alone
    /\ last.pre.file.kind = "json"
    /\ \E o \in DOMAIN last.pre.file.map :
          /\ last.pre.file.map[o] # <<>>
          /\ MapTokensFor(o) = {}
          /\ o \notin DOMAIN OnDisk.map
    /\ DOMAIN OnDisk.map # {}

\* Process i takes this step, for an invocation of op.
ActsAs(i, op) ==
    /\ procs[i].pc # "done"
    /\ procs'[i] # procs[i]
    /\ (procs[i].pc = "run" /\ procs'[i].pc = "run") => procs'[i].done # procs[i].done
    /\ op = (IF procs'[i].pc = "run" THEN procs'[i].op
             ELSE IF procs[i].pc = "run" THEN procs[i].op
             ELSE last'.op)

\* C30: a step that changes the previous-workspace file is a step of the
\* loop body of the monitor, a step that changes the mapping file is a step
\* of a map invocation, and no step of a focus or a move, whether it
\* succeeds or returns an error, changes either file.
C30_FileOwnership ==
    [][/\ previousFile' # previousFile =>
            (monitor.pc \in {"handle", "write"} /\ monitor' # monitor)
       /\ mappingFile' # mappingFile => \E i \in DOMAIN procs : ActsAs(i, "map")
       /\ \A i \in DOMAIN procs :
              (ActsAs(i, "focus") \/ ActsAs(i, "move")) =>
                  (previousFile' = previousFile /\ mappingFile' = mappingFile)]_vars

\* A focus that returned the transport's error after its first command, with
\* the mapping file present and the record the monitor has just written.
C30_Witness ==
    /\ last.op = "focus" /\ last.result = "Sway" /\ Len(last.cmds) = 1
    /\ monitor.pc = "wait"
    /\ previousFile = TextFile(tuple_to_string(<<"1">>, 1))
    /\ OnDisk.kind = "json"

\* C31: a process that reads the mapping file or the previous-workspace file
\* while another process saves it gets the complete old text or the complete
\* new text.
C31_AtomicSave ==
    (last.op = "save" /\ IsSome(last.seen)) =>
        Unwrap(last.seen) \in {last.old, last.data}

\* C32: a focus by number on a workspace that does not exist, while the
\* mapping file is missing, cannot be read as text or holds no valid
\* mapping, ends with the error of load_mapping (Io from read_to_string,
\* SerdeJson from from_str) and sends no command; when no other invocation
\* was running meanwhile, the workspace is still uncreated.
C32_MissingMappingIsFatal ==
    (/\ last.op = "focus" /\ IsSome(last.args.number)
     /\ ~IsSome(last.pre.target) /\ IsSome(last.pre.focused)
     /\ OnDisk.kind \in {"missing", "notutf8", "invalid"}) =>
        /\ last.result = (IF OnDisk.kind = "invalid" THEN "SerdeJson" ELSE "Io")
        /\ last.cmds = <<>>
        /\ last.alone => ~\E w \in comp.ws : w.num = Unwrap(last.args.number)

C32_Witness ==
    /\ last.op = "focus" /\ IsSome(last.args.number)
    /\ ~IsSome(last.pre.target)
    /\ last.alone
    /\ ~\E w \in comp.ws : w.num = Unwrap(last.args.number)
    /\ mappingFile = NotUtf8File
    /\ last.result = "Io"
    /\ last.reads = <<"get_workspaces", "mapping_file">>
    /\ last.cmds = <<>>

\* C33: whatever order the mapping's HashMap iterates in, a focus from the
\* same workspaces, outputs, mapping file and arguments hands the same
\* payloads to run_command.
C33_Deterministic ==
    (last.op = "focus" /\ last.result = "ok") =>
        \A order \in KeyOrders(DOMAIN last.snap.file.map) :
            Planned(ws_focus(last.snap.wss, Reply(last.snap.outs, 1), last.snap.file,
                             last.args, order)) = last.cmds

\* The latest invocation was one of the two older tools.
LegacyRan == last.op \in {"workspace", "move_to_workspace"}
\* A workspace had the number N when the tool started / in the list the
\* tool took from get_workspaces.
LegacyExisted == workspace_exists(last.args.workspace, last.pre.wss)
LegacySawExisting == workspace_exists(last.args.workspace, last.snap.wss)
\* The outputs that may be resolved: the given one when it is among `names`,
\* by name or by make, model and serial, else those claiming N in the config
\* the tool read.
LegacyResolvedAmong(names) ==
    LET given == IF IsSome(last.args.output)
                 THEN {o \in names :
                         \/ Unwrap(last.args.output) = o
                         \/ Unwrap(last.args.output) = "m x " \o OutputSerial(o)}
                 ELSE {}
    IN  IF given # {} THEN given
        ELSE IF last.snap.file.kind = "json"
        THEN Claimers(last.snap.file.map, last.args.workspace)
        ELSE {}
\* ... with the outputs that are connected / that the list the tool took
\* from get_outputs names.
LegacyResolved == LegacyResolvedAmong(OutputNames)
LegacySawResolved ==
    LegacyResolvedAmong({o \in OutputNames :
        \E i \in DOMAIN Reply(last.snap.outs, 1) : Reply(last.snap.outs, 1)[i].name = o})
LegacyFirst ==
    IF last.op = "workspace"
    THEN "workspace " \o ToString(last.args.workspace)
    ELSE "move to workspace number " \o ToString(last.args.workspace)
\* The first command, and the move to one of the outputs `resolved` after
\* it exactly when the workspace is new and some output is resolved.
LegacyCommands(existed, resolved) ==
    /\ last.cmds # <<>> /\ last.cmds[1] = LegacyFirst
    /\ IF ~existed /\ resolved # {}
       THEN /\ Len(last.cmds) = 2
            /\ \E o \in resolved :
                  last.cmds[2] = "[workspace=" \o ToString(last.args.workspace)
                                    \o "] move workspace to '" \o o \o "'"
       ELSE Len(last.cmds) = 1

\* C34: the older tools, run alone and to their end, send the switch (or
\* move-container) command first; a move of workspace N to an output follows
\* exactly when N did not exist at the start and an output was resolved
\* (the given one if it is connected, else one claiming N in the config),
\* and names a resolved output.
C34_LegacyCommands ==
    (LegacyRan /\ last.result = "ok" /\ last.alone)
        => LegacyCommands(LegacyExisted, LegacyResolved)

\* The same holds of the lists the tool took from its queries, the empty
\* list for a query that failed.
LegacyCommandsAsSeen ==
    (LegacyRan /\ last.result = "ok")
        => LegacyCommands(LegacySawExisting, LegacySawResolved)

==============================================================================
